---- MODULE Spec2Model ----
(***************************************************************************)
(* Model of kubestat.py: loading of Kubernetes resource snapshots, index   *)
(* renewal, relation linking, comparison against a reference snapshot,     *)
(* filtering and rendering, as sequenced by main().                        *)
(*                                                                         *)
(* Python strings that are ordered, concatenated or searched are modelled  *)
(* as sequences of character codes (ASCII), so that sorted() on strings,   *)
(* str() of an integer and slicing behave as in the program.               *)
(***************************************************************************)
EXTENDS Integers, Sequences, FiniteSets, TLC

(* ----------------------------- bounds ---------------------------------- *)
\* Items (pods, PVCs, other) in all the sources of one role together.
MaxItems == 2
\* Sources (input files or @namespaces) given for one role.
MaxSources == 2

(* --------------------------- characters -------------------------------- *)
\* ASCII codes of the characters that occur in the modelled strings.
Ch == [bang |-> 33, dollar |-> 36, lparen |-> 40, rparen |-> 41, star |-> 42,
       caret |-> 94, question |-> 63, dash |-> 45, plus |-> 43, dot |-> 46, slash |-> 47, zero |-> 48,
       a |-> 97, b |-> 98, c |-> 99, d |-> 100, e |-> 101, g |-> 103,
       f |-> 102, i |-> 105, k |-> 107, l |-> 108, m |-> 109, n |-> 110,
       o |-> 111, p |-> 112, r |-> 114, t |-> 116, u |-> 117, v |-> 118,
       w |-> 119, x |-> 120, z |-> 122,
       E |-> 69, G |-> 71, J |-> 74, M |-> 77, P |-> 80, R |-> 82, S |-> 83,
       T |-> 84]

Min2(a, b) == IF a <= b THEN a ELSE b

\* Python's str <= str: code-point lexicographic order, a proper prefix first.
StrLE(s, t) ==
    LET n == Min2(Len(s), Len(t))
        D == {i \in 1..n : s[i] # t[i]}
    IN  IF D = {} THEN Len(s) <= Len(t)
        ELSE LET i == CHOOSE j \in D : \A k \in D : j <= k IN s[i] < t[i]

StrLT(s, t) == StrLE(s, t) /\ s # t

\* Python's tuple order on (a1, a2, a3) <= (b1, b2, b3).
TupleLE(a, b) ==
    IF a[1] # b[1] THEN StrLT(a[1], b[1])
    ELSE IF a[2] # b[2] THEN StrLT(a[2], b[2])
    ELSE StrLE(a[3], b[3])

\* str(n) for an integer n.
RECURSIVE NatToStr(_)
NatToStr(n) ==
    IF n < 10 THEN <<Ch.zero + n>> ELSE NatToStr(n \div 10) \o <<Ch.zero + (n % 10)>>

IntToStr(n) == IF n < 0 THEN <<Ch.dash>> \o NatToStr(0 - n) ELSE NatToStr(n)

\* s.rfind(ch): 0-based index of the last occurrence, -1 when there is none.
RFind(s, ch) ==
    LET I == {i \in 1..Len(s) : s[i] = ch}
    IN  IF I = {} THEN -1 ELSE (CHOOSE i \in I : \A j \in I : j <= i) - 1

\* s[:k] of Python (k may be negative: counted from the end).
SliceTo(s, k) ==
    LET e == IF k < 0 THEN Len(s) + k ELSE Min2(k, Len(s))
    IN  IF e <= 0 THEN <<>> ELSE SubSeq(s, 1, e)

\* s[-k:] of Python for k >= 1.
LastChars(s, k) == IF Len(s) <= k THEN s ELSE SubSeq(s, Len(s) - k + 1, Len(s))

\* re.search(pattern, s) for a pattern without metacharacters: substring test.
Contains(s, pat) ==
    \E i \in 0..(Len(s) - Len(pat)) : SubSeq(s, i + 1, i + Len(pat)) = pat

\* The pattern ^((?!word).)*$ of config['summary'].
Without(word) ==
    <<Ch.caret, Ch.lparen, Ch.lparen, Ch.question, Ch.bang>> \o word
        \o <<Ch.rparen, Ch.dot, Ch.rparen, Ch.star, Ch.dollar>>

IsWithout(regex) ==
    Len(regex) > 10 /\ regex = Without(SubSeq(regex, 6, Len(regex) - 5))

\* bool(re.search(regex, s)) for the two kinds of pattern of the model: a
\* text without metacharacters is searched for, ^((?!word).)*$ matches the
\* strings that do not contain the word.
re_search(regex, s) ==
    IF IsWithout(regex) THEN ~Contains(s, SubSeq(regex, 6, Len(regex) - 5))
    ELSE Contains(s, regex)

(* ------------------------- unit converter ------------------------------ *)
IsDigit(c) == c >= Ch.zero /\ c <= Ch.zero + 9

(* Python integers are unbounded, and the quantities of the larger units   *)
(* exceed the integers of the model checker: an integer is modelled as a   *)
(* sign and its decimal digits (most significant first, no leading zero),  *)
(* a small operand as a machine integer.                                   *)
RECURSIVE Digits(_)
Digits(n) == IF n < 10 THEN <<n>> ELSE Digits(n \div 10) \o <<n % 10>>

RECURSIVE Strip(_)
Strip(d) == IF Len(d) > 1 /\ d[1] = 0 THEN Strip(Tail(d)) ELSE d

\* The digits of d * k + carry (with leading zeros when k = 0).
RECURSIVE MulAdd(_, _, _)
MulAdd(d, k, carry) ==
    IF d = <<>> THEN (IF carry = 0 THEN <<>> ELSE Digits(carry))
    ELSE LET t == d[Len(d)] * k + carry
         IN  MulAdd(SubSeq(d, 1, Len(d) - 1), k, t \div 10) \o <<t % 10>>

Mul(d, k) == Strip(MulAdd(d, k, 0))
Add(d, n) == Strip(MulAdd(d, 1, n))

\* divmod(d, k): quotient digits q and remainder r.
RECURSIVE DivFrom(_, _, _, _, _)
DivFrom(d, k, i, r, q) ==
    IF i > Len(d) THEN [q |-> Strip(q), r |-> r]
    ELSE LET t == r * 10 + d[i]
         IN  DivFrom(d, k, i + 1, t % k, Append(q, t \div k))

DivMod(d, k) == DivFrom(d, k, 1, 0, <<0>>)

\* d - 1 for d > 0.
RECURSIVE Borrow(_)
Borrow(d) ==
    IF d[Len(d)] > 0 THEN [d EXCEPT ![Len(d)] = @ - 1]
    ELSE Borrow(SubSeq(d, 1, Len(d) - 1)) \o <<9>>

Pred(d) == Strip(Borrow(d))

Less(a, b) ==
    \/ Len(a) < Len(b)
    \/ /\ Len(a) = Len(b)
       /\ a # b
       /\ LET i == CHOOSE j \in 1..Len(a) :
                      a[j] # b[j] /\ \A h \in 1..(j - 1) : a[h] = b[h]
          IN  a[i] < b[i]

\* The machine integer of digits that denote a number below 2^31.
RECURSIVE Value(_)
Value(d) ==
    IF d = <<>> THEN 0 ELSE 10 * Value(SubSeq(d, 1, Len(d) - 1)) + d[Len(d)]

\* A Python int: neg is set only for a number below zero.
PyInt(neg, mag) == [neg |-> neg /\ mag # <<0>>, mag |-> mag]

\* a > b for Python ints a and b >= 0.
Greater(a, b) == ~a.neg /\ Less(b.mag, a.mag)

\* The model's machine integer of a Python int (documents of the model hold
\* quantities below 2^31 only).
Machine(x) == IF x.neg THEN 0 - Value(x.mag) ELSE Value(x.mag)

\* str(x) of a Python int.
str(x) ==
    LET body == [i \in 1..Len(x.mag) |-> Ch.zero + x.mag[i]]
    IN  IF x.neg THEN <<Ch.dash>> \o body ELSE body

\* int(s) reading the leading digits and 0 when there are none, without
\* raising.
int_Lenient(s) ==
    LET signed == Len(s) >= 1 /\ s[1] \in {Ch.dash, Ch.plus}
        body == IF signed THEN Tail(s) ELSE s
        n == IF \A i \in 1..Len(body) : IsDigit(body[i]) THEN Len(body)
             ELSE (CHOOSE i \in 1..Len(body) :
                      ~IsDigit(body[i]) /\ \A j \in 1..(i - 1) : IsDigit(body[j])) - 1
    IN  [ok |-> TRUE,
         val |-> IF n = 0 THEN PyInt(FALSE, <<0>>)
                 ELSE PyInt(signed /\ s[1] = Ch.dash,
                            Strip([i \in 1..n |-> body[i] - Ch.zero]))]

\* int(s) of Python on the characters used here: an optional sign and at
\* least one digit; anything else raises ValueError (ok = FALSE).
int(s) ==
    LET signed == Len(s) >= 1 /\ s[1] \in {Ch.dash, Ch.plus}
        body == IF signed THEN Tail(s) ELSE s
    IN  IF body # <<>> /\ \A i \in 1..Len(body) : IsDigit(body[i])
        THEN [ok |-> TRUE,
              val |-> PyInt(signed /\ s[1] = Ch.dash,
                            Strip([i \in 1..Len(body) |-> body[i] - Ch.zero]))]
        ELSE [ok |-> FALSE, val |-> PyInt(FALSE, <<0>>)]

\* r * k * ... * k, n factors k, for a converted mantissa r that may have
\* raised.
RECURSIVE Times(_, _, _)
Times(r, k, n) ==
    IF n = 0 \/ ~r.ok THEN r
    ELSE Times([ok |-> TRUE, val |-> PyInt(r.val.neg, Mul(r.val.mag, k))], k, n - 1)

\* int(round(n / 1000, 0)): round half to even.
RoundDiv1000(n) ==
    LET d == DivMod(n.mag, 1000)
        odd == d.q[Len(d.q)] % 2 = 1
    IN  PyInt(n.neg, IF d.r > 500 \/ (d.r = 500 /\ odd) THEN Add(d.q, 1) ELSE d.q)

res_cpu_str_to_millicores(value) ==
    IF LastChars(value, 1) = <<Ch.m>>
    THEN int(SliceTo(value, -1))
    ELSE Times(int(value), 1000, 1)

\* The conversion with the suffix G read as the binary unit.
res_mem_str_to_bytes_BinaryG(value) ==
    LET l1 == LastChars(value, 1)
        l2 == LastChars(value, 2)
        m1 == int(SliceTo(value, -1))
        m2 == int(SliceTo(value, -2))
        k == 1000
        ki == 1024
    IN  IF l1 = <<Ch.k>> THEN Times(m1, k, 1)
        ELSE IF l1 = <<Ch.M>> THEN Times(m1, k, 2)
        ELSE IF l1 = <<Ch.G>> THEN Times(m1, ki, 3)
        ELSE IF l1 = <<Ch.T>> THEN Times(m1, k, 4)
        ELSE IF l1 = <<Ch.P>> THEN Times(m1, k, 5)
        ELSE IF l1 = <<Ch.E>> THEN Times(m1, k, 6)
        ELSE IF l1 = <<Ch.m>>
             THEN [ok |-> m1.ok, val |-> IF m1.ok THEN RoundDiv1000(m1.val) ELSE m1.val]
        ELSE IF l2 = <<Ch.k, Ch.i>> THEN Times(m2, ki, 1)
        ELSE IF l2 = <<Ch.M, Ch.i>> THEN Times(m2, ki, 2)
        ELSE IF l2 = <<Ch.G, Ch.i>> THEN Times(m2, ki, 3)
        ELSE IF l2 = <<Ch.T, Ch.i>> THEN Times(m2, ki, 4)
        ELSE IF l2 = <<Ch.P, Ch.i>> THEN Times(m2, ki, 5)
        ELSE IF l2 = <<Ch.E, Ch.i>> THEN Times(m2, ki, 6)
        ELSE int(value)

res_mem_str_to_bytes(value) ==
    LET l1 == LastChars(value, 1)
        l2 == LastChars(value, 2)
        m1 == int(SliceTo(value, -1))
        m2 == int(SliceTo(value, -2))
        k == 1000
        ki == 1024
    IN  IF l1 = <<Ch.k>> THEN Times(m1, k, 1)
        ELSE IF l1 = <<Ch.M>> THEN Times(m1, k, 2)
        ELSE IF l1 = <<Ch.G>> THEN Times(m1, k, 3)
        ELSE IF l1 = <<Ch.T>> THEN Times(m1, k, 4)
        ELSE IF l1 = <<Ch.P>> THEN Times(m1, k, 5)
        ELSE IF l1 = <<Ch.E>> THEN Times(m1, k, 6)
        ELSE IF l1 = <<Ch.m>>
             THEN [ok |-> m1.ok, val |-> IF m1.ok THEN RoundDiv1000(m1.val) ELSE m1.val]
        ELSE IF l2 = <<Ch.k, Ch.i>> THEN Times(m2, ki, 1)
        ELSE IF l2 = <<Ch.M, Ch.i>> THEN Times(m2, ki, 2)
        ELSE IF l2 = <<Ch.G, Ch.i>> THEN Times(m2, ki, 3)
        ELSE IF l2 = <<Ch.T, Ch.i>> THEN Times(m2, ki, 4)
        ELSE IF l2 = <<Ch.P, Ch.i>> THEN Times(m2, ki, 5)
        ELSE IF l2 = <<Ch.E, Ch.i>> THEN Times(m2, ki, 6)
        ELSE int(value)

(* Python floats are IEEE 754 binary64: a float > 0 is modelled as m * 2^e *)
(* with the integer m below 2^53 + 1 (digits) and the machine integer e;   *)
(* every operation rounds its exact result to 53 bits, half to even.       *)
Odd(d) == d[Len(d)] % 2 = 1

\* d * 2^n.
RECURSIVE Shl(_, _)
Shl(d, n) == IF n = 0 THEN d ELSE IF n >= 10 THEN Shl(Mul(d, 1024), n - 10)
             ELSE Mul(d, 2 ^ n)

\* base^n.
RECURSIVE Power(_, _)
Power(base, n) == IF n = 0 THEN <<1>> ELSE Mul(Power(base, n - 1), base)

\* d / k for a machine integer k > 0, rounded to an integer, half to even.
DivRound(d, k) ==
    LET x == DivMod(d, k)
    IN  IF 2 * x.r > k \/ (2 * x.r = k /\ Odd(x.q)) THEN Add(x.q, 1) ELSE x.q

\* The least t with d < 2^(53 + t).
RECURSIVE ExcessBits(_, _)
ExcessBits(d, t) == IF Less(d, Shl(<<1>>, 53 + t)) THEN t ELSE ExcessBits(d, t + 1)

\* float(v) for an integer v >= 0.
float(v) ==
    LET t == ExcessBits(v, 0)
    IN  IF t = 0 THEN [m |-> v, e |-> 0] ELSE [m |-> DivRound(v, 2 ^ t), e |-> t]

\* The least s with m * 2^s >= bound, and m * 2^s.
RECURSIVE ScaleUp(_, _, _)
ScaleUp(m, bound, s) ==
    IF ~Less(m, bound) THEN [m |-> m, s |-> s]
    ELSE IF Less(Mul(m, 1024), bound) THEN ScaleUp(Mul(m, 1024), bound, s + 10)
    ELSE ScaleUp(Mul(m, 2), bound, s + 1)

\* x / k for a float x and a machine integer k > 0: the quotient has 53
\* significant bits.
FloatDiv(x, k) ==
    IF x.m = <<0>> THEN x
    ELSE LET u == ScaleUp(x.m, Shl(Digits(k), 52), 0)
         IN  [m |-> DivRound(u.m, k), e |-> x.e - u.s]

\* x / k / ... / k, n divisions.
RECURSIVE FloatDivs(_, _, _)
FloatDivs(x, k, n) == IF n = 0 THEN x ELSE FloatDivs(FloatDiv(x, k), k, n - 1)

\* d / 2^bits rounded to an integer, half to even; frac tells how the part
\* cut off so far compares with one half of the last place kept.
RECURSIVE ShrRound(_, _, _)
ShrRound(d, bits, frac) ==
    IF bits = 0
    THEN IF frac = "high" \/ (frac = "half" /\ Odd(d)) THEN Add(d, 1) ELSE d
    ELSE LET b == Min2(bits, 20)
             x == DivMod(d, 2 ^ b)
             half == 2 ^ (b - 1)
         IN  ShrRound(x.q, bits - b,
                      IF x.r > half THEN "high"
                      ELSE IF x.r = half
                           THEN IF frac = "zero" THEN "half" ELSE "high"
                      ELSE IF x.r = 0 /\ frac = "zero" THEN "zero" ELSE "low")

\* str(round(x, 1)) for a float 0 <= x < 10^15: round() takes the exact value
\* of x to the nearest tenth, half to even, and str() writes that tenth.
str_round_1(x) ==
    LET tenths == IF x.e >= 0 THEN Mul(Shl(x.m, x.e), 10)
                  ELSE ShrRound(Mul(x.m, 10), 0 - x.e, "zero")
        parts == DivMod(tenths, 10)
    IN  str(PyInt(FALSE, parts.q)) \o <<Ch.dot, Ch.zero + parts.r>>

\* The bound of the n-th comparison without the "- 1".
Below_OneUnit(base, n) == PyInt(FALSE, Power(base, n))

\* 1 * base * ... * base - 1, the bound of the n-th comparison.
Below(base, n) == PyInt(FALSE, Pred(Power(base, n)))

res_mem_bytes_to_str_1024(value) ==
    LET f == float(value.mag)
        r0 == str(value)
        r1 == IF Greater(value, Below(1024, 1))
              THEN str_round_1(FloatDivs(f, 1024, 1)) \o <<Ch.k, Ch.i>> ELSE r0
        r2 == IF Greater(value, Below(1024, 2))
              THEN str_round_1(FloatDivs(f, 1024, 2)) \o <<Ch.M, Ch.i>> ELSE r1
        r3 == IF Greater(value, Below(1024, 3))
              THEN str_round_1(FloatDivs(f, 1024, 3)) \o <<Ch.G, Ch.i>> ELSE r2
        r4 == IF Greater(value, Below(1024, 4))
              THEN str_round_1(FloatDivs(f, 1024, 4)) \o <<Ch.T, Ch.i>> ELSE r3
        r5 == IF Greater(value, Below(1024, 5))
              THEN str_round_1(FloatDivs(f, 1024, 5)) \o <<Ch.P, Ch.i>> ELSE r4
        r6 == IF Greater(value, Below(1024, 6))
              THEN str_round_1(FloatDivs(f, 1024, 6)) \o <<Ch.E, Ch.i>> ELSE r5
    IN  IF value.mag = <<0>> THEN <<Ch.zero>> ELSE r6

res_mem_bytes_to_str_1000(value) ==
    LET f == float(value.mag)
        r0 == str(value)
        r1 == IF Greater(value, Below(1000, 1))
              THEN str_round_1(FloatDivs(f, 1000, 1)) \o <<Ch.k>> ELSE r0
        r2 == IF Greater(value, Below(1000, 2))
              THEN str_round_1(FloatDivs(f, 1000, 2)) \o <<Ch.M>> ELSE r1
        r3 == IF Greater(value, Below(1000, 3))
              THEN str_round_1(FloatDivs(f, 1000, 3)) \o <<Ch.G>> ELSE r2
        r4 == IF Greater(value, Below(1000, 4))
              THEN str_round_1(FloatDivs(f, 1000, 4)) \o <<Ch.T>> ELSE r3
        r5 == IF Greater(value, Below(1000, 5))
              THEN str_round_1(FloatDivs(f, 1000, 5)) \o <<Ch.P>> ELSE r4
        r6 == IF Greater(value, Below(1000, 6))
              THEN str_round_1(FloatDivs(f, 1000, 6)) \o <<Ch.E>> ELSE r5
    IN  IF value.mag = <<0>> THEN <<Ch.zero>> ELSE r6

\* The memory and storage fields of get_formatted_fields under
\* config['units']; with 'raw' the value goes through '{}'.format(v).
format_memory(units, value) ==
    IF units = "bin" THEN res_mem_bytes_to_str_1024(value)
    ELSE IF units = "si" THEN res_mem_bytes_to_str_1000(value)
    ELSE str(value)

(* --------------------------- entity model ------------------------------ *)
\* Strings of the program that are sorted, joined into keys or searched.
S == [init |-> <<Ch.i, Ch.n, Ch.i, Ch.t>>,
      reg |-> <<Ch.r, Ch.e, Ch.g>>,
      ReplicaSet |-> <<Ch.R, Ch.e, Ch.p, Ch.l, Ch.i, Ch.c, Ch.a, Ch.S, Ch.e, Ch.t>>,
      StatefulSet |-> <<Ch.S, Ch.t, Ch.a, Ch.t, Ch.e, Ch.f, Ch.u, Ch.l, Ch.S, Ch.e, Ch.t>>,
      Job |-> <<Ch.J, Ch.o, Ch.b>>,
      slash |-> <<Ch.slash>>]

\* ContainerListItem.reset(): the fields of a fresh container record.
ContainerListItem ==
    [appKey |-> <<>>, appIndex |-> 0, appName |-> <<>>, workloadType |-> <<>>,
     podKey |-> <<>>, podIndex |-> 0, podLocalIndex |-> 0, podName |-> <<>>,
     key |-> <<>>, index |-> 0, localIndex |-> 0, type |-> <<>>, name |-> <<>>,
     CPURequests |-> 0, CPULimits |-> 0,
     memoryRequests |-> 0, memoryLimits |-> 0,
     ephStorageRequests |-> 0, ephStorageLimits |-> 0,
     PVCList |-> {}, PVCQuantity |-> 0, PVCRequests |-> 0,
     PVCList_not_found |-> {},
     change |-> "Unchanged", changedFields |-> {},
     ref_CPURequests |-> 0, ref_CPULimits |-> 0,
     ref_memoryRequests |-> 0, ref_memoryLimits |-> 0,
     ref_ephStorageRequests |-> 0, ref_ephStorageLimits |-> 0,
     ref_PVCList |-> {}, ref_PVCQuantity |-> 0, ref_PVCRequests |-> 0,
     ref_PVCList_not_found |-> {}]

\* 'ref_' + res_field
RefField ==
    [CPURequests |-> "ref_CPURequests", CPULimits |-> "ref_CPULimits",
     memoryRequests |-> "ref_memoryRequests", memoryLimits |-> "ref_memoryLimits",
     ephStorageRequests |-> "ref_ephStorageRequests",
     ephStorageLimits |-> "ref_ephStorageLimits",
     PVCList |-> "ref_PVCList", PVCQuantity |-> "ref_PVCQuantity",
     PVCRequests |-> "ref_PVCRequests",
     PVCList_not_found |-> "ref_PVCList_not_found",
     requests |-> "ref_requests"]

\* The res_field list of ContainerListItem.check_if_modified.
CheckedFields ==
    <<"CPURequests", "CPULimits", "memoryRequests", "memoryLimits",
      "ephStorageRequests", "ephStorageLimits", "PVCList", "PVCRequests">>

\* The res_field list of compare_containers (copied to ref_*, zeroed on deletion).
ComparedFields ==
    <<"CPURequests", "CPULimits", "memoryRequests", "memoryLimits",
      "ephStorageRequests", "ephStorageLimits", "PVCList", "PVCQuantity",
      "PVCRequests", "PVCList_not_found">>

SetFields == {"PVCList", "PVCList_not_found"}

\* generate_keys with the pod key made of the application alone.
generate_keys_Unindexed(c) ==
    LET appKey == c.appName
        podKey == appKey
    IN  [c EXCEPT !.appKey = appKey,
                  !.podKey = podKey,
                  !.key = podKey \o S.slash \o c.type \o S.slash \o c.name]

\* generate_keys with the key made of the pod key and the name alone.
generate_keys_Untyped(c) ==
    LET appKey == c.appName
        podKey == appKey \o S.slash \o IntToStr(c.podLocalIndex)
    IN  [c EXCEPT !.appKey = appKey,
                  !.podKey = podKey,
                  !.key = podKey \o S.slash \o c.name]

generate_keys(c) ==
    LET appKey == c.appName
        podKey == appKey \o S.slash \o IntToStr(c.podLocalIndex)
    IN  [c EXCEPT !.appKey = appKey,
                  !.podKey = podKey,
                  !.key = podKey \o S.slash \o c.type \o S.slash \o c.name]

has_pod(c) == c.podName # <<>>

has_container(c) == c.name # <<>>

is_same_pod(c, container, trust_key) ==
    IF trust_key THEN c.podKey = container.podKey
    ELSE c.podName = container.podName

is_same_app(c, container, trust_key) ==
    IF trust_key THEN c.appKey = container.appKey
    ELSE c.appName = container.appName

is_deleted(c) == c.change \in {"Deleted Pod", "Deleted Container"}

is_new(c) == c.change \in {"New Pod", "New Container"}

\* check_if_modified stopping at the first field that differs.
RECURSIVE CheckFromShortCircuit(_, _, _)
CheckFromShortCircuit(c, fields, i) ==
    IF i > Len(fields) THEN c
    ELSE LET f == fields[i]
         IN  IF c[f] # c[RefField[f]]
             THEN [c EXCEPT !.change = "Modified", !.changedFields = @ \cup {f}]
             ELSE CheckFromShortCircuit(c, fields, i + 1)

\* The loop of check_if_modified over the fields from the i-th on.
RECURSIVE CheckFrom(_, _, _)
CheckFrom(c, fields, i) ==
    IF i > Len(fields) THEN c
    ELSE LET f == fields[i]
         IN  IF c[f] # c[RefField[f]]
             THEN CheckFrom([c EXCEPT !.change = "Modified",
                                      !.changedFields = @ \cup {f}], fields, i + 1)
             ELSE CheckFrom(c, fields, i + 1)

check_if_modified(c) == CheckFrom(c, CheckedFields, 1)

\* PVCListItem.reset(). containerQuantity starts as the Python type object
\* `int`, not a number; -1 stands for it (no program value is negative here).
PVCListItem ==
    [key |-> <<>>, index |-> 0, uid |-> "", name |-> <<>>,
     storageClassName |-> "", containerList |-> {}, containerQuantity |-> -1,
     requests |-> 0, change |-> "Unchanged", changedFields |-> {},
     ref_requests |-> 0]

pvc_generate_keys(p) == [p EXCEPT !.key = p.name]

pvc_is_deleted(p) == p.change = "Deleted"

pvc_is_new(p) == p.change = "New"

pvc_check_if_modified(p) == CheckFrom(p, <<"requests">>, 1)

(* ------------------------- input documents ----------------------------- *)
\* An optional JSON member: <<>> when the key is absent, <<v>> when present.
Absent == <<>>
Val(v) == <<v>>

\* Resource quantity strings.
Q == [one |-> <<Ch.zero + 1>>,
      two |-> <<Ch.zero + 2>>,
      m500 |-> <<Ch.zero + 5, Ch.zero, Ch.zero, Ch.m>>,
      ki1 |-> <<Ch.zero + 1, Ch.k, Ch.i>>,
      k2 |-> <<Ch.zero + 2, Ch.k>>,
      half |-> <<Ch.zero, Ch.dot, Ch.zero + 5>>,
      xi1 |-> <<Ch.zero + 1, Ch.x, Ch.i>>]

\* Names of workloads, pods, containers, volumes and claims.
N == [a |-> <<Ch.a>>,
      a_b |-> <<Ch.a, Ch.dash, Ch.b>>,
      a_b_x |-> <<Ch.a, Ch.dash, Ch.b, Ch.dash, Ch.x>>,
      a_0 |-> <<Ch.a, Ch.dash, Ch.zero>>,
      a_b_0 |-> <<Ch.a, Ch.dash, Ch.b, Ch.dash, Ch.zero>>,
      c |-> <<Ch.c>>, i |-> <<Ch.i>>,
      d |-> <<Ch.d>>, e |-> <<Ch.e>>,
      v |-> <<Ch.v>>, w |-> <<Ch.w>>, z |-> <<Ch.z>>]

\* spec.containers[] / spec.initContainers[] entry.
ContainerDesc(name, cpuR, memR, mounts) ==
    [name |-> name, cpuRequests |-> cpuR, cpuLimits |-> Absent,
     memRequests |-> memR, memLimits |-> Absent,
     ephRequests |-> Absent, ephLimits |-> Absent, volumeMounts |-> mounts]

\* spec.volumes[] entry: its name, its other keys, and the claim name when
\* 'persistentVolumeClaim' is one of them.
Volume(name, keys, claim) == [name |-> name, keys |-> keys, claimName |-> claim]

PodDesc(name, owners, volumes, inits, conts) ==
    [kind |-> "Pod", name |-> name, ownerReferences |-> owners,
     volumes |-> volumes, initContainers |-> inits, containers |-> conts,
     uid |-> "", storageClassName |-> "", storage |-> <<>>]

PVCDesc(name, uid, storage) ==
    [kind |-> "PersistentVolumeClaim", name |-> name, ownerReferences |-> <<>>,
     volumes |-> <<>>, initContainers |-> <<>>, containers |-> <<>>,
     uid |-> uid, storageClassName |-> "std", storage |-> storage]

Owner(kind, name) == [kind |-> kind, name |-> name]

PvcVol(name, claim) == Volume(name, {"persistentVolumeClaim"}, claim)

\* Items that satisfy the input contract.
GoodItems ==
    { \* StatefulSet a, pod a-0: one container mounting claim d
      PodDesc(N.a_0, <<Owner(S.StatefulSet, N.a)>>, <<PvcVol(N.v, N.d)>>, <<>>,
              <<ContainerDesc(N.c, Val(Q.one), Val(Q.ki1), <<N.v>>)>>),
      \* the same pod with other requests, a second claim and an init container
      PodDesc(N.a_0, <<Owner(S.StatefulSet, N.a)>>,
              <<PvcVol(N.v, N.d), Volume(N.e, {"emptyDir"}, <<>>), PvcVol(N.w, N.e)>>,
              <<ContainerDesc(N.i, Val(Q.m500), Absent, <<>>)>>,
              <<ContainerDesc(N.c, Val(Q.two), Val(Q.k2), <<N.v, N.e, N.w>>)>>),
      \* Job a-b, pod a-b-0: mounts claim e; an unmounted volume without a
      \* type key
      PodDesc(N.a_b_0, <<Owner(S.Job, N.a_b)>>,
              <<PvcVol(N.w, N.e), Volume(N.z, {}, <<>>)>>, <<>>,
              <<ContainerDesc(N.c, Absent, Absent, <<N.w>>)>>),
      \* ReplicaSet a-b-x (application a-b), pod a-0 without containers
      PodDesc(N.a_0, <<Owner(S.ReplicaSet, N.a_b_x)>>, <<>>, <<>>, <<>>),
      \* StatefulSet a, pod a-b-0: the container of a-0 under another pod name
      PodDesc(N.a_b_0, <<Owner(S.StatefulSet, N.a)>>, <<>>, <<>>,
              <<ContainerDesc(N.c, Val(Q.one), Absent, <<>>)>>),
      PVCDesc(N.d, "u1", Q.ki1),
      PVCDesc(N.d, "u2", Q.k2),
      PVCDesc(N.e, "u4", Q.one) }

\* Items that violate the input contract, one violation each.
BadItems ==
    { [PodDesc(<<>>, <<>>, <<>>, <<>>, <<>>) EXCEPT !.kind = "Service"],
      PodDesc(N.a_0, <<>>, <<>>, <<>>, <<>>),
      PodDesc(N.a_0, <<Owner(S.StatefulSet, N.a), Owner(S.Job, N.a_b)>>,
              <<>>, <<>>, <<>>),
      PodDesc(N.a_0, <<Owner(S.StatefulSet, N.a)>>, <<>>, <<>>,
              <<ContainerDesc(N.c, Absent, Absent, <<N.v>>)>>),
      PodDesc(N.a_0, <<Owner(S.StatefulSet, N.a)>>,
              <<Volume(N.v, {"persistentVolumeClaim", "emptyDir"}, N.d)>>, <<>>,
              <<ContainerDesc(N.c, Absent, Absent, <<N.v>>)>>),
      PodDesc(N.a_0, <<Owner(S.StatefulSet, N.a)>>, <<>>,
              <<ContainerDesc(N.i, Val(Q.half), Absent, <<>>)>>, <<>>),
      PVCDesc(N.e, "u3", Q.xi1) }

Items == GoodItems \cup BadItems

RECURSIVE SeqsUpTo(_, _)
SeqsUpTo(X, n) ==
    IF n = 0 THEN {<<>>}
    ELSE LET R == SeqsUpTo(X, n - 1)
         IN  R \cup {Append(r, x) : r \in {q \in R : Len(q) = n - 1}, x \in X}

\* Documents handed over by read_res_desc: apiVersion 'v1' and an items array.
Docs ==
    {[apiVersion |-> "v1", items |-> it] : it \in SeqsUpTo(Items, MaxItems)}
    \cup {[apiVersion |-> "v2", items |-> <<>>]}

(* ---------------------- resource set: parsing --------------------------- *)
\* A resource set under construction: st.C and st.P are the container and PVC
\* objects (an object is identified by its position), st.containers and
\* st.pvcs are the lists of the KubernetesResourceSet (object identities), and
\* st.err tells that an exception was raised.
Raise(st) == [st EXCEPT !.err = TRUE]

Last(seq) == seq[Len(seq)]

add_pod(st) ==
    [st EXCEPT !.C = Append(@, ContainerListItem),
               !.containers = Append(@, Len(st.C) + 1)]

\* add_container that appends a record also behind a pod without container.
add_container_AlwaysAppending(st) ==
    LET i == Len(st.containers)
    IN  IF i = 0 THEN Raise(st)
        ELSE LET prev == st.C[st.containers[i]]
             IN  IF ~has_pod(prev) THEN Raise(st)
                 ELSE [st EXCEPT
                         !.C = Append(@, [ContainerListItem EXCEPT
                                            !.appName = prev.appName,
                                            !.workloadType = prev.workloadType,
                                            !.podName = prev.podName]),
                         !.containers = Append(@, Len(st.C) + 1)]

\* The record to fill is the last one of st.containers afterwards.
add_container(st) ==
    LET i == Len(st.containers)
    IN  IF i = 0 THEN Raise(st)
        ELSE LET prev == st.C[st.containers[i]]
             IN  IF ~has_pod(prev) THEN Raise(st)
                 ELSE IF has_container(prev)
                 THEN [st EXCEPT
                         !.C = Append(@, [ContainerListItem EXCEPT
                                            !.appName = prev.appName,
                                            !.workloadType = prev.workloadType,
                                            !.podName = prev.podName]),
                         !.containers = Append(@, Len(st.C) + 1)]
                 ELSE st

add_pvc(st) ==
    [st EXCEPT !.P = Append(@, PVCListItem), !.pvcs = Append(@, Len(st.P) + 1)]

\* One `try: field = res_cpu_str_to_millicores(desc[...]) except KeyError:
\* pass` statement: an absent key is skipped, a conversion error propagates.
SetCpu(st, id, field, opt) ==
    IF st.err \/ opt = Absent THEN st
    ELSE LET r == res_cpu_str_to_millicores(opt[1])
         IN  IF r.ok THEN [st EXCEPT !.C[id][field] = Machine(r.val)] ELSE Raise(st)

\* The same statement with res_mem_str_to_bytes.
SetMem(st, id, field, opt) ==
    IF st.err \/ opt = Absent THEN st
    ELSE LET r == res_mem_str_to_bytes(opt[1])
         IN  IF r.ok THEN [st EXCEPT !.C[id][field] = Machine(r.val)] ELSE Raise(st)

\* The inner loop over pod_volumes for one mount: [err, found, claims].
RECURSIVE ScanVolumes(_, _, _, _)
ScanVolumes(pod_volumes, mount, j, acc) ==
    IF j > Len(pod_volumes) \/ acc.err THEN acc
    ELSE LET volume == pod_volumes[j]
         IN  IF volume.name # mount THEN ScanVolumes(pod_volumes, mount, j + 1, acc)
             ELSE IF Cardinality(volume.keys) # 1
             THEN [acc EXCEPT !.err = TRUE]
             ELSE ScanVolumes(pod_volumes, mount, j + 1,
                    [acc EXCEPT
                       !.found = TRUE,
                       !.claims = IF "persistentVolumeClaim" \in volume.keys
                                  THEN @ \cup {volume.claimName} ELSE @])

\* The loop over volumeMounts without the final test of volume_type: a mount
\* that names no volume of the pod is skipped.
RECURSIVE ScanMountsLenient(_, _, _, _, _)
ScanMountsLenient(st, id, mounts, pod_volumes, k) ==
    IF k > Len(mounts) \/ st.err THEN st
    ELSE LET r == ScanVolumes(pod_volumes, mounts[k], 1,
                              [err |-> FALSE, found |-> FALSE, claims |-> {}])
             st1 == [st EXCEPT !.C[id].PVCList = @ \cup r.claims]
         IN  IF r.err THEN Raise(st1)
             ELSE ScanMountsLenient(st1, id, mounts, pod_volumes, k + 1)

RECURSIVE ScanMounts(_, _, _, _, _)
ScanMounts(st, id, mounts, pod_volumes, k) ==
    IF k > Len(mounts) \/ st.err THEN st
    ELSE LET r == ScanVolumes(pod_volumes, mounts[k], 1,
                              [err |-> FALSE, found |-> FALSE, claims |-> {}])
             st1 == [st EXCEPT !.C[id].PVCList = @ \cup r.claims]
         IN  IF r.err \/ ~r.found THEN Raise(st1)
             ELSE ScanMounts(st1, id, mounts, pod_volumes, k + 1)

\* The try statements of parse_container_resources in their order: the field,
\* its converter and the value of the description (absent without the key).
ResourceStatements(container_desc) ==
    <<[field |-> "CPURequests", unit |-> "cpu", opt |-> container_desc.cpuRequests],
      [field |-> "CPULimits", unit |-> "cpu", opt |-> container_desc.cpuLimits],
      [field |-> "memoryRequests", unit |-> "mem", opt |-> container_desc.memRequests],
      [field |-> "memoryLimits", unit |-> "mem", opt |-> container_desc.memLimits],
      [field |-> "ephStorageRequests", unit |-> "mem",
       opt |-> container_desc.ephRequests],
      [field |-> "ephStorageLimits", unit |-> "mem", opt |-> container_desc.ephLimits]>>

RECURSIVE SetResources(_, _, _, _)
SetResources(st, id, statements, k) ==
    IF k > Len(statements) THEN st
    ELSE SetResources(
           IF statements[k].unit = "cpu"
           THEN SetCpu(st, id, statements[k].field, statements[k].opt)
           ELSE SetMem(st, id, statements[k].field, statements[k].opt),
           id, statements, k + 1)

parse_container_resources(st, container_desc, container_type, pod_volumes) ==
    LET s0 == add_container(st)
    IN  IF s0.err THEN s0
        ELSE
        LET id == Last(s0.containers)
            s1 == [s0 EXCEPT !.C[id].name = container_desc.name,
                             !.C[id].type = container_type]
            s7 == SetResources(s1, id, ResourceStatements(container_desc), 1)
        IN  ScanMounts(s7, id, container_desc.volumeMounts, pod_volumes, 1)

RECURSIVE ParseContainers(_, _, _, _, _)
ParseContainers(st, descs, container_type, pod_volumes, k) ==
    IF k > Len(descs) \/ st.err THEN st
    ELSE ParseContainers(
           parse_container_resources(st, descs[k], container_type, pod_volumes),
           descs, container_type, pod_volumes, k + 1)

\* appName[:appName.rfind('-')]
StripLastSegment(appName) == SliceTo(appName, RFind(appName, Ch.dash))

load_pod(st, pod_desc) ==
    LET s0 == add_pod(st)
        id == Last(s0.containers)
        s1 == [s0 EXCEPT !.C[id].podName = pod_desc.name]
    IN  IF Len(pod_desc.ownerReferences) # 1 THEN Raise(s1)
        ELSE
        LET owner == pod_desc.ownerReferences[1]
            s2 == [s1 EXCEPT
                     !.C[id].workloadType = owner.kind,
                     !.C[id].appName = IF owner.kind = S.ReplicaSet
                                       THEN StripLastSegment(owner.name)
                                       ELSE owner.name]
            s3 == ParseContainers(s2, pod_desc.initContainers, S.init,
                                  pod_desc.volumes, 1)
        IN  ParseContainers(s3, pod_desc.containers, S.reg, pod_desc.volumes, 1)

load_pvc(st, pvc_desc) ==
    LET s0 == add_pvc(st)
        id == Last(s0.pvcs)
        s1 == [s0 EXCEPT !.P[id].name = pvc_desc.name,
                         !.P[id].uid = pvc_desc.uid,
                         !.P[id].storageClassName = pvc_desc.storageClassName]
        r == res_mem_str_to_bytes(pvc_desc.storage)
    IN  IF r.ok THEN [s1 EXCEPT !.P[id].requests = Machine(r.val)] ELSE Raise(s1)

\* The loop of load() over res_desc["items"]; the first exception ends it.
RECURSIVE LoadItems(_, _, _)
LoadItems(st, items, k) ==
    IF k > Len(items) \/ st.err THEN st
    ELSE LET item == items[k]
         IN  IF item.kind = "Pod" THEN LoadItems(load_pod(st, item), items, k + 1)
             ELSE IF item.kind = "PersistentVolumeClaim"
             THEN LoadItems(load_pvc(st, item), items, k + 1)
             ELSE Raise(st)

(* ------------------- resource set: index renewal ----------------------- *)
\* sorted(seq, key=...): a stable sort of object identities; keyOf maps an
\* identity to its string key.
InsertByKey(acc, x, keyOf) ==
    LET Later == {j \in 1..Len(acc) : ~StrLE(keyOf[acc[j]], keyOf[x])}
        pos == IF Later = {} THEN Len(acc) + 1
               ELSE CHOOSE j \in Later : \A k \in Later : j <= k
    IN  SubSeq(acc, 1, pos - 1) \o <<x>> \o SubSeq(acc, pos, Len(acc))

RECURSIVE SortFrom(_, _, _, _)
SortFrom(seq, k, acc, keyOf) ==
    IF k > Len(seq) THEN acc
    ELSE SortFrom(seq, k + 1, InsertByKey(acc, seq[k], keyOf), keyOf)

sorted(seq, keyOf) == SortFrom(seq, 1, <<>>, keyOf)

\* The sort key of renew_keys: appName + '/' + podName + '/' + name.
RenewSortKey(c) == c.appName \o S.slash \o c.podName \o S.slash \o c.name

\* The loop of renew_keys over the sorted containers. ix holds app_index,
\* pod_index, pod_local_index and container_local_index; k - 1 is
\* container_index.
RECURSIVE RenewContainers(_, _, _, _)
RenewContainers(C, ids, k, ix) ==
    IF k > Len(ids) THEN C
    ELSE
    LET container == C[ids[k]]
        first == (k = 1)
        prev == IF first THEN container ELSE C[ids[k - 1]]
        sameApp == is_same_app(prev, container, FALSE)
        samePod == is_same_pod(prev, container, FALSE)
        app_index == IF ~first /\ ~sameApp THEN ix.app + 1 ELSE ix.app
        pod_index == IF ~first /\ ~samePod THEN ix.pod + 1 ELSE ix.pod
        pod_local_index ==
            IF first THEN ix.podLocal
            ELSE IF ~sameApp THEN 0
            ELSE IF ~samePod THEN ix.podLocal + 1 ELSE ix.podLocal
        container_local_index ==
            IF first THEN ix.local
            ELSE IF ~samePod THEN 0 ELSE ix.local + 1
        renewed == generate_keys([container EXCEPT
                                    !.appIndex = app_index + 1,
                                    !.podIndex = pod_index + 1,
                                    !.podLocalIndex = pod_local_index + 1,
                                    !.localIndex = container_local_index + 1,
                                    !.index = k])
    IN  RenewContainers([C EXCEPT ![ids[k]] = renewed], ids, k + 1,
                        [app |-> app_index, pod |-> pod_index,
                         podLocal |-> pod_local_index,
                         local |-> container_local_index])

RECURSIVE RenewPVCs(_, _, _)
RenewPVCs(P, ids, k) ==
    IF k > Len(ids) THEN P
    ELSE RenewPVCs([P EXCEPT ![ids[k]] =
                        pvc_generate_keys([P[ids[k]] EXCEPT !.index = k - 1])],
                   ids, k + 1)

renew_keys(st) ==
    LET KeyC == [id \in 1..Len(st.C) |-> RenewSortKey(st.C[id])]
        KeyP == [id \in 1..Len(st.P) |-> st.P[id].name]
        cs == sorted(st.containers, KeyC)
        ps == sorted(st.pvcs, KeyP)
    IN  [st EXCEPT !.containers = cs,
                   !.pvcs = ps,
                   !.C = RenewContainers(st.C, cs, 1,
                           [app |-> 0, pod |-> 0, podLocal |-> 0, local |-> 0]),
                   !.P = RenewPVCs(st.P, ps, 1)]

(* ------------------- resource set: relation linking -------------------- *)
\* get_pvc_by_name: the identity of the first PVC of the list with that name
\* that passes the allow_* tests, 0 for None.
get_pvc_by_name(P, pvcs, name, allow_deleted, allow_new) ==
    LET Hit == {j \in 1..Len(pvcs) :
                  /\ P[pvcs[j]].name = name
                  /\ ~(pvc_is_deleted(P[pvcs[j]]) /\ ~allow_deleted)
                  /\ ~(pvc_is_new(P[pvcs[j]]) /\ ~allow_new)}
    IN  IF Hit = {} THEN 0 ELSE pvcs[CHOOSE j \in Hit : \A k \in Hit : j <= k]

RECURSIVE ResetPVCs(_, _, _)
ResetPVCs(P, ids, k) ==
    IF k > Len(ids) THEN P
    ELSE IF pvc_is_deleted(P[ids[k]]) THEN ResetPVCs(P, ids, k + 1)
    ELSE ResetPVCs([P EXCEPT ![ids[k]].containerList = {},
                             ![ids[k]].containerQuantity = 0], ids, k + 1)

\* The loop over PVCList treating a claim without PVC as an error.
RECURSIVE LinkClaimsStrict(_, _, _)
LinkClaimsStrict(st, cid, names) ==
    IF names = {} THEN st
    ELSE
    LET pvc_name == CHOOSE n \in names : TRUE
        pvc == get_pvc_by_name(st.P, st.pvcs, pvc_name, FALSE, TRUE)
        st1 == IF pvc # 0
               THEN [st EXCEPT
                       !.C[cid].PVCQuantity = @ + 1,
                       !.C[cid].PVCRequests = @ + st.P[pvc].requests,
                       !.P[pvc].containerList = @ \cup {st.C[cid].key},
                       !.P[pvc].containerQuantity =
                           Cardinality(st.P[pvc].containerList \cup {st.C[cid].key})]
               ELSE Raise(st)
    IN  LinkClaimsStrict(st1, cid, names \ {pvc_name})

\* The loop over container.fields['PVCList'] for the container cid.
RECURSIVE LinkClaims(_, _, _)
LinkClaims(st, cid, names) ==
    IF names = {} THEN st
    ELSE
    LET pvc_name == CHOOSE n \in names : TRUE
        pvc == get_pvc_by_name(st.P, st.pvcs, pvc_name, FALSE, TRUE)
        st1 == IF pvc # 0
               THEN [st EXCEPT
                       !.C[cid].PVCQuantity = @ + 1,
                       !.C[cid].PVCRequests = @ + st.P[pvc].requests,
                       !.P[pvc].containerList = @ \cup {st.C[cid].key},
                       !.P[pvc].containerQuantity =
                           Cardinality(st.P[pvc].containerList \cup {st.C[cid].key})]
               ELSE [st EXCEPT !.C[cid].PVCList_not_found = @ \cup {pvc_name}]
    IN  LinkClaims(st1, cid, names \ {pvc_name})

\* renew_relations without the reset of the container's counters: the
\* quantities of an earlier load are counted again.
RECURSIVE LinkContainersKeepingCounters(_, _)
LinkContainersKeepingCounters(st, k) ==
    IF k > Len(st.containers) THEN st
    ELSE
    LET cid == st.containers[k]
    IN  IF is_deleted(st.C[cid]) THEN LinkContainersKeepingCounters(st, k + 1)
        ELSE LinkContainersKeepingCounters(
               LinkClaims([st EXCEPT !.C[cid].PVCList_not_found = {}],
                          cid, st.C[cid].PVCList),
               k + 1)

RECURSIVE LinkContainers(_, _)
LinkContainers(st, k) ==
    IF k > Len(st.containers) THEN st
    ELSE
    LET cid == st.containers[k]
    IN  IF is_deleted(st.C[cid]) THEN LinkContainers(st, k + 1)
        ELSE LinkContainers(
               LinkClaims([st EXCEPT !.C[cid].PVCQuantity = 0,
                                     !.C[cid].PVCRequests = 0,
                                     !.C[cid].PVCList_not_found = {}],
                          cid, st.C[cid].PVCList),
               k + 1)

renew_relations(st) ==
    LinkContainers([st EXCEPT !.P = ResetPVCs(st.P, st.pvcs, 1)], 1)

(* --------------------------- resource set: load ------------------------ *)
\* read_res_desc: a document whose apiVersion is not 'v1' is rejected.
read_res_desc(st, res_desc) ==
    IF res_desc.apiVersion # "v1" THEN Raise(st) ELSE st

\* The end of load(): self.renew_keys(); self.renew_relations(), not reached
\* when an exception was raised before.
Renew(st) == IF st.err THEN st ELSE renew_relations(renew_keys(st))

\* The loop of load() over the items of a document that was accepted.
ParseItems(st, res_desc) ==
    IF st.err THEN st ELSE LoadItems(st, res_desc.items, 1)

load(st, res_desc) == Renew(ParseItems(read_res_desc(st, res_desc), res_desc))

\* sort() that orders the PVCs and leaves the container list as it is.
sort_PVCsOnly(st) ==
    LET KeyP == [id \in 1..Len(st.P) |-> st.P[id].key]
    IN  [st EXCEPT !.pvcs = sorted(st.pvcs, KeyP)]

\* sort() that orders the containers and leaves the PVC list as it is.
sort_ContainersOnly(st) ==
    LET KeyC == [id \in 1..Len(st.C) |-> st.C[id].key]
    IN  [st EXCEPT !.containers = sorted(st.containers, KeyC)]

\* KubernetesResourceSet.sort()
sort(st) ==
    LET KeyC == [id \in 1..Len(st.C) |-> st.C[id].key]
        KeyP == [id \in 1..Len(st.P) |-> st.P[id].key]
    IN  [st EXCEPT !.containers = sorted(st.containers, KeyC),
                   !.pvcs = sorted(st.pvcs, KeyP)]

(* ------------------------ resource set: compare ------------------------ *)
\* Get FIRST container by key: its identity, 0 for None.
get_container_by_key(C, containers, key) ==
    LET Hit == {j \in 1..Len(containers) : C[containers[j]].key = key}
    IN  IF Hit = {} THEN 0
        ELSE containers[CHOOSE j \in Hit : \A k \in Hit : j <= k]

get_pvc_by_key(P, pvcs, key) ==
    LET Hit == {j \in 1..Len(pvcs) : P[pvcs[j]].key = key}
    IN  IF Hit = {} THEN 0 ELSE pvcs[CHOOSE j \in Hit : \A k \in Hit : j <= k]

\* for res_field in fields: c['ref_' + res_field] = src[res_field]
RECURSIVE CopyToRef(_, _, _, _)
CopyToRef(c, src, fields, i) ==
    IF i > Len(fields) THEN c
    ELSE CopyToRef([c EXCEPT ![RefField[fields[i]]] = src[fields[i]]],
                   src, fields, i + 1)

\* The zeroing of a deleted container's live fields, by the type of the value.
RECURSIVE ZeroFields(_, _, _)
ZeroFields(c, fields, i) ==
    IF i > Len(fields) THEN c
    ELSE ZeroFields([c EXCEPT ![fields[i]] =
                        IF fields[i] \in SetFields THEN {} ELSE 0],
                    fields, i + 1)

\* compare_pvcs, "Added and modified": the loop over self.pvcs.
RECURSIVE ComparePVCsNew(_, _, _)
ComparePVCsNew(st, ref, k) ==
    IF k > Len(st.pvcs) THEN st
    ELSE
    LET id == st.pvcs[k]
        pvc == st.P[id]
        ref_pvc == get_pvc_by_key(st.P, ref.pvcs, pvc.key)
        pvc1 == IF ref_pvc = 0
                THEN [pvc EXCEPT !.change = "New", !.changedFields = {}]
                ELSE pvc_check_if_modified(
                       CopyToRef(pvc, st.P[ref_pvc], <<"requests">>, 1))
    IN  ComparePVCsNew([st EXCEPT !.P[id] = pvc1], ref, k + 1)

\* compare_pvcs, "Deleted": the loop over ref_res.pvcs.
RECURSIVE ComparePVCsDeleted(_, _, _)
ComparePVCsDeleted(st, ref, k) ==
    IF k > Len(ref.pvcs) THEN st
    ELSE
    LET rid == ref.pvcs[k]
        pvc == get_pvc_by_key(st.P, st.pvcs, st.P[rid].key)
    IN  IF pvc # 0 THEN ComparePVCsDeleted(st, ref, k + 1)
        ELSE ComparePVCsDeleted(
               [st EXCEPT !.pvcs = Append(@, rid),
                          !.P[rid] = [@ EXCEPT !.change = "Deleted",
                                               !.changedFields = {},
                                               !.index = 0,
                                               !.uid = "",
                                               !.ref_requests = st.P[rid].requests,
                                               !.requests = 0]],
               ref, k + 1)

compare_pvcs(st, ref) == ComparePVCsDeleted(ComparePVCsNew(st, ref, 1), ref, 1)

\* The "Added and modified" loop matching a reference container only when
\* its pod name is the current one's too.
RECURSIVE CompareContainersNewSamePodName(_, _, _)
CompareContainersNewSamePodName(st, ref, k) ==
    IF k > Len(st.containers) THEN st
    ELSE
    LET id == st.containers[k]
        container == st.C[id]
        found == get_container_by_key(st.C, ref.containers, container.key)
        ref_container == IF found # 0 /\ st.C[found].podName = container.podName
                         THEN found ELSE 0
        c1 == IF ref_container = 0
              THEN [container EXCEPT !.change = "New Container",
                                     !.changedFields = {}]
              ELSE check_if_modified(
                     CopyToRef(container, st.C[ref_container], ComparedFields, 1))
    IN  CompareContainersNewSamePodName([st EXCEPT !.C[id] = c1], ref, k + 1)

\* The "Added and modified" loop with check_if_modified() also called on the
\* reference container, which records the classification in the reference.
RECURSIVE CompareContainersNewMarkingRef(_, _, _)
CompareContainersNewMarkingRef(st, ref, k) ==
    IF k > Len(st.containers) THEN st
    ELSE
    LET id == st.containers[k]
        container == st.C[id]
        ref_container == get_container_by_key(st.C, ref.containers, container.key)
        c1 == IF ref_container = 0
              THEN [container EXCEPT !.change = "New Container",
                                     !.changedFields = {}]
              ELSE check_if_modified(
                     CopyToRef(container, st.C[ref_container], ComparedFields, 1))
        st1 == [st EXCEPT !.C[id] = c1]
        st2 == IF ref_container = 0 THEN st1
               ELSE [st1 EXCEPT !.C[ref_container].change = c1.change,
                                !.C[ref_container].changedFields = c1.changedFields]
    IN  CompareContainersNewMarkingRef(st2, ref, k + 1)

\* compare_containers, "Added and modified": the loop over self.containers.
RECURSIVE CompareContainersNew(_, _, _)
CompareContainersNew(st, ref, k) ==
    IF k > Len(st.containers) THEN st
    ELSE
    LET id == st.containers[k]
        container == st.C[id]
        ref_container == get_container_by_key(st.C, ref.containers, container.key)
        c1 == IF ref_container = 0
              THEN [container EXCEPT !.change = "New Container",
                                     !.changedFields = {}]
              ELSE check_if_modified(
                     CopyToRef(container, st.C[ref_container], ComparedFields, 1))
    IN  CompareContainersNew([st EXCEPT !.C[id] = c1], ref, k + 1)

\* compare_containers, "Deleted": the loop over ref_res.containers. The
\* reference object itself is appended to self.containers and changed.
RECURSIVE CompareContainersDeleted(_, _, _)
CompareContainersDeleted(st, ref, k) ==
    IF k > Len(ref.containers) THEN st
    ELSE
    LET rid == ref.containers[k]
        container == get_container_by_key(st.C, st.containers, st.C[rid].key)
    IN  IF container # 0 THEN CompareContainersDeleted(st, ref, k + 1)
        ELSE
        LET marked == [st.C[rid] EXCEPT !.change = "Deleted Container",
                                        !.changedFields = {},
                                        !.podIndex = 0]
            deleted == ZeroFields(CopyToRef(marked, marked, ComparedFields, 1),
                                  ComparedFields, 1)
        IN  CompareContainersDeleted(
              [st EXCEPT !.containers = Append(@, rid), !.C[rid] = deleted],
              ref, k + 1)

\* "Containers -> Pods", first loop: pods_change, a dict from podKey to the
\* common change of the pod's containers or 'mix'.
RECURSIVE PodsChange(_, _, _, _)
PodsChange(C, containers, k, pods_change) ==
    IF k > Len(containers) THEN pods_change
    ELSE
    LET pod_key == C[containers[k]].podKey
        change == C[containers[k]].change
    IN  PodsChange(C, containers, k + 1,
          IF pod_key \in DOMAIN pods_change
          THEN IF change # pods_change[pod_key]
               THEN [pods_change EXCEPT ![pod_key] = "mix"]
               ELSE pods_change
          ELSE pods_change @@ (pod_key :> change))

\* Promotion that does not look at pods_change (mixed pods promoted too).
PromoteIgnoringMix(c, pods_change) ==
    IF c.change = "Deleted Container" THEN [c EXCEPT !.change = "Deleted Pod"]
    ELSE IF c.change = "New Container" THEN [c EXCEPT !.change = "New Pod"]
    ELSE c

\* The change of one container after the second loop of "Containers -> Pods".
Promote(c, pods_change) ==
    IF pods_change[c.podKey] # "mix"
    THEN IF c.change = "Deleted Container" THEN [c EXCEPT !.change = "Deleted Pod"]
         ELSE IF c.change = "New Container" THEN [c EXCEPT !.change = "New Pod"]
         ELSE c
    ELSE c

RECURSIVE PromoteAll(_, _, _, _)
PromoteAll(C, containers, k, pods_change) ==
    IF k > Len(containers) THEN C
    ELSE PromoteAll([C EXCEPT ![containers[k]] = Promote(@, pods_change)],
                    containers, k + 1, pods_change)

compare_containers(st, ref) ==
    LET s1 == CompareContainersDeleted(CompareContainersNew(st, ref, 1), ref, 1)
        pods_change == PodsChange(s1.C, s1.containers, 1, <<>>)
    IN  [s1 EXCEPT !.C = PromoteAll(s1.C, s1.containers, 1, pods_change)]

compare(st, ref) == sort(compare_containers(compare_pvcs(st, ref), ref))

(* ------------------------ filter and rendering ------------------------- *)
\* A filter expression after its split at ',' and '=': a sequence of
\* <<field, regex>> parts. A regex is a literal text, or holds an unbalanced
\* '(' and does not compile.
FilterFields == <<"workloadType", "podName", "type", "name">>

Aliases == [kind |-> "workloadType", pod |-> "podName", type |-> "type",
            container |-> "name"]

\* re.compile(regex) does not raise: an unclosed parenthesis is an error.
ReCompiles(regex) ==
    IF IsWithout(regex) THEN TRUE ELSE \A i \in 1..Len(regex) : regex[i] # Ch.lparen

\* parse_filter_expression: [err, fields], fields being the criteria record.
RECURSIVE ParseCriteria(_, _, _)
ParseCriteria(parts, k, r) ==
    IF k > Len(parts) \/ r.err THEN r
    ELSE
    LET field == IF parts[k][1] \in DOMAIN Aliases THEN Aliases[parts[k][1]]
                 ELSE parts[k][1]
    IN  IF field \notin DOMAIN ContainerListItem \/ ~ReCompiles(parts[k][2])
        THEN [r EXCEPT !.err = TRUE]
        ELSE ParseCriteria(parts, k + 1, [r EXCEPT !.fields[field] = parts[k][2]])

parse_filter_expression(criteria) ==
    ParseCriteria(criteria, 1, [err |-> FALSE, fields |-> ContainerListItem])

\* The test of one container in KubernetesResourceSet.filter; regex and text
\* are criteria.fields[field] and container.fields[field].
Matches(container, criteria, inverse) ==
    \A i \in 1..Len(FilterFields) :
        \E regex \in {criteria[FilterFields[i]]},
           text \in {container[FilterFields[i]]} :
            regex = <<>> \/ (re_search(regex, text) # inverse)

filter(C, rs, criteria, inverse) ==
    [containers |-> SelectSeq(rs.containers,
                              LAMBDA id : Matches(C[id], criteria, inverse)),
     pvcs |-> rs.pvcs]

\* The filter arguments of a run: -f expr, -F expr or neither (the two are
\* mutually exclusive). None is <<>>, an expression is <<parts>>.
FilterArgs ==
    { [filter_criteria |-> Absent, inverse_filter_criteria |-> Absent],
      [filter_criteria |-> Val(<<<<"pod", N.a_b>>>>),
       inverse_filter_criteria |-> Absent],
      [filter_criteria |-> Absent,
       inverse_filter_criteria |-> Val(<<<<"pod", N.a_b>>, <<"type", S.reg>>>>)],
      [filter_criteria |-> Val(<<<<"namespace", N.a>>>>),
       inverse_filter_criteria |-> Absent],
      [filter_criteria |-> Absent,
       inverse_filter_criteria |-> Val(<<<<"container", <<Ch.lparen, Ch.c>>>>>>)] }

\* The "Filtering" block of main: [err, resources].
main_filter(C, all, a) ==
    LET r0 == [err |-> FALSE, resources |-> all]
        r1 == IF a.filter_criteria = Absent THEN r0
              ELSE LET p == parse_filter_expression(a.filter_criteria[1])
                   IN  IF p.err THEN [r0 EXCEPT !.err = TRUE]
                       ELSE [r0 EXCEPT !.resources = filter(C, all, p.fields, FALSE)]
    IN  IF r1.err \/ a.inverse_filter_criteria = Absent THEN r1
        ELSE LET p == parse_filter_expression(a.inverse_filter_criteria[1])
             IN  IF p.err THEN [r1 EXCEPT !.err = TRUE]
                 ELSE [r1 EXCEPT !.resources = filter(C, all, p.fields, TRUE)]

(* --------------------------- summary rows ------------------------------ *)
\* config['summary']: the filter expression of each summary row (as the
\* criteria parse_filter_expression splits it into) and its two texts.
config_summary ==
    << [filter |-> <<>>, pod_text |-> "pods", container_text |-> "containers"],
       [filter |-> << <<"workloadType", Without(S.Job)>>,
                      <<"type", Without(S.init)>> >>,
        pod_text |-> "non-job pods", container_text |-> "non-init containers"] >>

get_container_quantity(C, containers, allow_deleted, allow_new) ==
    Cardinality({k \in 1..Len(containers) :
                    /\ ~(~allow_deleted /\ is_deleted(C[containers[k]]))
                    /\ ~(~allow_new /\ is_new(C[containers[k]]))})

get_pod_quantity(C, containers, allow_deleted, allow_new) ==
    Cardinality({C[containers[k]].podKey : k \in
                    {k \in 1..Len(containers) :
                        /\ ~(~allow_deleted /\ is_deleted(C[containers[k]]))
                        /\ ~(~allow_new /\ is_new(C[containers[k]]))}})

\* get_pvc_quantity counting the deleted and new PVCs too.
get_pvc_quantity_CountingAll(P, pvcs, allow_deleted, allow_new) == Len(pvcs)

get_pvc_quantity(P, pvcs, allow_deleted, allow_new) ==
    Cardinality({k \in 1..Len(pvcs) :
                    /\ ~(~allow_deleted /\ pvc_is_deleted(P[pvcs[k]]))
                    /\ ~(~allow_new /\ pvc_is_new(P[pvcs[k]]))})

\* The fields get_resources_total adds up over the containers.
TotalFields ==
    <<"CPURequests", "CPULimits", "memoryRequests", "memoryLimits",
      "ephStorageRequests", "ephStorageLimits", "PVCList", "PVCList_not_found",
      "ref_CPURequests", "ref_CPULimits", "ref_memoryRequests", "ref_memoryLimits",
      "ref_ephStorageRequests", "ref_ephStorageLimits", "ref_PVCList",
      "ref_PVCList_not_found">>

\* r.fields[field] + container.fields[field], or the union for a set.
RECURSIVE AddFields(_, _, _)
AddFields(r, c, i) ==
    IF i > Len(TotalFields) THEN r
    ELSE LET f == TotalFields[i]
         IN  AddFields([r EXCEPT ![f] = IF f \in SetFields \/ f \in {RefField[g] : g \in SetFields}
                                         THEN @ \cup c[f] ELSE @ + c[f]],
                       c, i + 1)

RECURSIVE AddContainers(_, _, _, _)
AddContainers(C, containers, k, r) ==
    IF k > Len(containers) THEN r
    ELSE AddContainers(C, containers, k + 1, AddFields(r, C[containers[k]], 1))

\* The sum of field over the PVCs found for the names.
RECURSIVE AddRequests(_, _, _, _, _, _)
AddRequests(P, pvcs, names, allow_deleted, allow_new, field) ==
    IF names = {} THEN 0
    ELSE LET name == CHOOSE n \in names : TRUE
             pvc == get_pvc_by_name(P, pvcs, name, allow_deleted, allow_new)
         IN  (IF pvc = 0 THEN 0 ELSE P[pvc][field])
             + AddRequests(P, pvcs, names \ {name}, allow_deleted, allow_new, field)

\* KubernetesResourceSet.get_resources_total on the set rs whose all_resources
\* is all. podName and name hold the text template with its arguments.
get_resources_total(C, P, rs, all, with_changes, pod_text, container_text) ==
    LET r == AddContainers(C, rs.containers, 1, ContainerListItem)
        stat == [filtered_pods |-> get_pod_quantity(C, rs.containers, FALSE, TRUE),
                 filtered_containers |->
                     get_container_quantity(C, rs.containers, FALSE, TRUE),
                 all_pods |-> get_pod_quantity(C, all.containers, FALSE, TRUE),
                 all_containers |->
                     get_container_quantity(C, all.containers, FALSE, TRUE),
                 all_pvcs |-> get_pvc_quantity(P, rs.pvcs, FALSE, TRUE),
                 ref_all_pvcs |-> get_pvc_quantity(P, rs.pvcs, TRUE, FALSE),
                 used_pvcs |-> Cardinality(r.PVCList),
                 ref_used_pvcs |-> Cardinality(r.ref_PVCList)]
        t == [r EXCEPT
                !.PVCQuantity = stat.used_pvcs,
                !.ref_PVCQuantity = stat.ref_used_pvcs,
                !.PVCRequests =
                    @ + AddRequests(P, rs.pvcs, r.PVCList, FALSE, TRUE, "requests"),
                !.ref_PVCRequests =
                    @ + AddRequests(P, rs.pvcs, r.ref_PVCList, TRUE, FALSE,
                                    "ref_requests"),
                !.key = <<>>, !.podKey = <<>>, !.podIndex = <<>>,
                !.podName = [text |-> pod_text, filtered |-> stat.filtered_pods,
                             all |-> stat.all_pods, used_pvcs |-> stat.used_pvcs,
                             all_pvcs |-> stat.all_pvcs],
                !.name = [text |-> container_text,
                          filtered |-> stat.filtered_containers,
                          all |-> stat.all_containers],
                !.change = "Unchanged", !.changedFields = {}]
    IN  IF with_changes THEN check_if_modified(t) ELSE t

\* make_summary_items: one summary item per entry of config['summary'].
make_summary_items(C, P, rs, all, with_changes) ==
    [i \in 1..Len(config_summary) |->
        LET cfg == config_summary[i]
            criteria == parse_filter_expression(cfg.filter).fields
        IN  get_resources_total(C, P, filter(C, rs, criteria, FALSE), all,
                                with_changes, cfg.pod_text, cfg.container_text)]

Row(kind, id) == [kind |-> kind, id |-> id]

\* A summary item printed: the row of the k-th summary item.
SummaryRows(summary) ==
    [k \in 1..Len(summary) |-> [kind |-> "summary", id |-> k, item |-> summary[k]]]

print_table(C, rs, summary) ==
    <<Row("header", 0), Row("line", 0)>>
    \o [k \in 1..Len(rs.containers) |-> Row("container", rs.containers[k])]
    \o <<Row("line", 0)>> \o SummaryRows(summary)

\* make_tree_lines with a pod line in front of every container.
TreeLines_AlwaysPod(C, containers, k) ==
    <<Row("pod", containers[k]), Row("container", containers[k])>>

\* make_tree_lines of the k-th container: a pod line when the previous
\* container is None or of another pod, then the container's line.
TreeLines(C, containers, k) ==
    (IF k = 1 \/ ~is_same_pod(C[containers[k - 1]], C[containers[k]], TRUE)
     THEN <<Row("pod", containers[k])>> ELSE <<>>)
    \o <<Row("container", containers[k])>>

RECURSIVE TreeFrom(_, _, _)
TreeFrom(C, containers, k) ==
    IF k > Len(containers) THEN <<>>
    ELSE TreeLines(C, containers, k) \o TreeFrom(C, containers, k + 1)

print_tree(C, rs, summary) ==
    <<Row("header", 0), Row("line", 0)>> \o TreeFrom(C, rs.containers, 1)
    \o <<Row("line", 0)>> \o SummaryRows(summary)

\* make_csv_lines of a row: ContainerListLine and ContainerListSummary raise
\* RuntimeError; a header and a container give one line, written from
\* get_formatted_fields(raw_units=True).
make_csv_lines(row) ==
    IF row.kind \in {"line", "summary"} THEN [ok |-> FALSE, val |-> <<>>]
    ELSE [ok |-> TRUE,
          val |-> <<[kind |-> row.kind, id |-> row.id, raw_units |-> TRUE]>>]

\* print_csv with a separator line after the containers.
print_csv_WithLine(C, rs) ==
    <<Row("header", 0)>>
    \o [k \in 1..Len(rs.containers) |-> Row("container", rs.containers[k])]
    \o <<Row("line", 0)>>

print_csv(C, rs) ==
    make_csv_lines(Row("header", 0)).val
    \o [k \in 1..Len(rs.containers) |->
            make_csv_lines(Row("container", rs.containers[k])).val[1]]

(* ------------------------------ colours -------------------------------- *)
\* config['table_view'] and config['tree_view']: the columns of a row
\* without and with the comparison.
config_columns ==
    [table |->
        [columns_no_diff |->
            <<"podIndex", "workloadType", "podName", "type", "name",
              "CPURequests", "CPULimits", "memoryRequests", "memoryLimits",
              "ephStorageRequests", "ephStorageLimits", "PVCRequests">>,
         columns_with_diff |->
            <<"podIndex", "workloadType", "podName", "type", "name",
              "CPURequests", "CPULimits", "memoryRequests", "memoryLimits",
              "ephStorageRequests", "ephStorageLimits", "PVCRequests", "change",
              "ref_CPURequests", "ref_CPULimits", "ref_memoryRequests",
              "ref_memoryLimits", "ref_ephStorageRequests",
              "ref_ephStorageLimits", "ref_PVCRequests">>],
     tree |->
        [columns_no_diff |->
            <<"_tree_branch", "CPURequests", "CPULimits", "memoryRequests",
              "memoryLimits", "ephStorageRequests", "ephStorageLimits",
              "PVCRequests">>,
         columns_with_diff |->
            <<"_tree_branch", "CPURequests", "CPULimits", "memoryRequests",
              "memoryLimits", "ephStorageRequests", "ephStorageLimits",
              "PVCRequests", "change",
              "ref_CPURequests", "ref_CPULimits", "ref_memoryRequests",
              "ref_memoryLimits", "ref_ephStorageRequests",
              "ref_ephStorageLimits", "ref_PVCRequests">>]]

\* column[4:] of the columns with column[:4] == 'ref_'.
RefColumns ==
    [ref_CPURequests |-> "CPURequests", ref_CPULimits |-> "CPULimits",
     ref_memoryRequests |-> "memoryRequests", ref_memoryLimits |-> "memoryLimits",
     ref_ephStorageRequests |-> "ephStorageRequests",
     ref_ephStorageLimits |-> "ephStorageLimits",
     ref_PVCRequests |-> "PVCRequests"]

\* An entry of config['colors'].
Color(map, key) == [map |-> map, key |-> key]

\* fields_to_table matching the changed fields by the column name as it is.
column_color_Unstripped(item, column, highlight_changes, make_bold) ==
    LET color_map == IF make_bold THEN "changes_bold" ELSE "changes"
    IN  IF highlight_changes
        THEN IF item.change = "Modified"
             THEN IF column \in item.changedFields \/ column = "change"
                  THEN Color(color_map, "Modified")
                  ELSE Color(color_map, "Unchanged")
             ELSE Color(color_map, item.change)
        ELSE IF make_bold THEN Color("COLOR_BOLD_DEFAULT", "") ELSE Color("", "")

\* fields_to_table: the colour put in front of a column of an item.
column_color(item, column, highlight_changes, make_bold) ==
    LET color_map == IF make_bold THEN "changes_bold" ELSE "changes"
        column_changed == IF column \in DOMAIN RefColumns THEN RefColumns[column]
                          ELSE column
    IN  IF highlight_changes
        THEN IF item.change = "Modified"
             THEN IF column_changed \in item.changedFields \/ column = "change"
                  THEN Color(color_map, "Modified")
                  ELSE Color(color_map, "Unchanged")
             ELSE Color(color_map, item.change)
        ELSE IF make_bold THEN Color("COLOR_BOLD_DEFAULT", "") ELSE Color("", "")

\* The colours of the columns of a printed row, as make_table_lines and
\* make_tree_lines of its class call fields_to_table. A pod line of the tree
\* is one column in the colour of config['colors']['changes_tree_pod_branch'].
row_colors(C, row, view, with_changes) ==
    LET columns == IF with_changes THEN config_columns[view].columns_with_diff
                   ELSE config_columns[view].columns_no_diff
        Colors(item, highlight_changes, make_bold) ==
            [k \in 1..Len(columns) |->
                [column |-> columns[k],
                 color |-> column_color(item, columns[k], highlight_changes, make_bold)]]
    IN  IF row.kind = "container" THEN Colors(C[row.id], TRUE, FALSE)
        ELSE IF row.kind = "summary" THEN Colors(row.item, TRUE, view = "tree")
        ELSE IF row.kind = "header" THEN Colors(ContainerListItem, FALSE, view = "tree")
        ELSE IF row.kind = "line" THEN Colors(ContainerListItem, FALSE, FALSE)
        ELSE <<[column |-> "_tree_branch",
                color |-> Color("changes_tree_pod_branch", C[row.id].change)]>>

OutputFormats == {"tree", "table", "csv"}

\* KubernetesResourceSet.print: the rows written, by kind and object.
print(C, P, rs, all, output_format, with_changes) ==
    IF output_format = "table"
    THEN print_table(C, rs, make_summary_items(C, P, rs, all, with_changes))
    ELSE IF output_format = "tree"
    THEN print_tree(C, rs, make_summary_items(C, P, rs, all, with_changes))
    ELSE print_csv(C, rs)

(* ------------------------------ main ----------------------------------- *)
VARIABLES
    C,              \* the ContainerListItem objects, by identity
    P,              \* the PVCListItem objects, by identity
    all_resources,  \* main's all_resources: [containers, pvcs] (identities)
    ref_resources,  \* main's ref_resources
    resources,      \* main's resources: the set handed to print()
    with_changes,   \* main's with_changes
    dump,           \* the global dump: the documents read per role, the error
    pc,             \* the position of main
    trace,          \* the operations main has called so far and how they ended
    exit_code,      \* Absent while running, Val(code) after the exit
    output,         \* Absent, or Val(format) once print() has written the rows
    conv,           \* a quantity on its way through the unit converter
    layout          \* the column widths on their way through the width scaling

vars == <<C, P, all_resources, ref_resources, resources, with_changes, dump, pc,
          trace, exit_code, output, conv, layout>>

EmptySet == [containers |-> <<>>, pvcs |-> <<>>]

\* The objects main starts with.
Constructed ==
    /\ C = <<>>
    /\ P = <<>>
    /\ all_resources = EmptySet
    /\ ref_resources = EmptySet
    /\ resources = EmptySet
    /\ with_changes = FALSE
    /\ dump = [input |-> <<>>, reference |-> <<>>, error |-> Absent]
    /\ pc = "inputs"
    /\ trace = <<>>
    /\ exit_code = Absent
    /\ output = <<>>

\* No quantity is under conversion apart from those of the loaded documents.
Idle == [at |-> "idle"]

Init == Constructed /\ conv = Idle /\ layout = Idle

RECURSIVE ItemCount(_)
ItemCount(docs) ==
    IF docs = <<>> THEN 0 ELSE Len(Head(docs).items) + ItemCount(Tail(docs))

\* main with the comparison placed between the two loading loops.
main_next_ComparingEarly(at, ok, more, refs) ==
    IF ~ok THEN "failed"
    ELSE IF at = "inputs"
         THEN IF more THEN "inputs" ELSE IF refs THEN "compare" ELSE "filter"
    ELSE IF at = "compare" THEN "references"
    ELSE IF at = "references" THEN IF more THEN "references" ELSE "filter"
    ELSE IF at = "filter" THEN "print"
    ELSE "done"

\* main calling a failed operation again instead of leaving through the
\* except branch.
main_next_Retrying(at, ok, more, refs) ==
    IF ~ok THEN at
    ELSE IF at = "inputs"
         THEN IF more THEN "inputs" ELSE IF refs THEN "references" ELSE "filter"
    ELSE IF at = "references" THEN IF more THEN "references" ELSE "compare"
    ELSE IF at = "compare" THEN "filter"
    ELSE IF at = "filter" THEN "print"
    ELSE "done"

\* Where main continues after an operation. ok: the operation returned; more:
\* the list of sources being loaded has a further element; refs:
\* args.references is not None.
main_next(at, ok, more, refs) ==
    IF ~ok THEN "failed"
    ELSE IF at = "inputs"
         THEN IF more THEN "inputs" ELSE IF refs THEN "references" ELSE "filter"
    ELSE IF at = "references" THEN IF more THEN "references" ELSE "compare"
    ELSE IF at = "compare" THEN "filter"
    ELSE IF at = "filter" THEN "print"
    ELSE "done"

\* The except branch of main (quit(1)) and the normal end of main.
main_exit(next) ==
    IF next = "failed" THEN Val(1) ELSE IF next = "done" THEN Val(0) ELSE Absent

Step(op, ok, more, refs) ==
    LET next == main_next(pc, ok, more, refs)
    IN  /\ pc' = next
        /\ trace' = Append(trace, [op |-> op, ok |-> ok])
        /\ exit_code' = main_exit(next)

Running == pc \notin {"done", "failed"}

\* A resource set together with the objects its lists refer to.
Heap(rs) ==
    [C |-> C, P |-> P, containers |-> rs.containers, pvcs |-> rs.pvcs,
     err |-> FALSE]

\* The role main is loading sources for, and the set it loads them into.
Role == IF pc = "inputs" THEN "input" ELSE "reference"

\* The state after the load() of one source has returned or raised with st.
Loaded_source(st, res_desc, more, refs) ==
    /\ C' = st.C
    /\ P' = st.P
    /\ IF pc = "inputs"
       THEN /\ all_resources' = [containers |-> st.containers, pvcs |-> st.pvcs]
            /\ UNCHANGED <<ref_resources, with_changes>>
       ELSE /\ ref_resources' = [containers |-> st.containers, pvcs |-> st.pvcs]
            /\ with_changes' = (with_changes \/ ~st.err)
            /\ UNCHANGED all_resources
    /\ dump' = [dump EXCEPT ![Role] = Append(@, res_desc),
                            !.error = IF st.err THEN Val("load") ELSE @]
    /\ Step(IF pc = "inputs" THEN "load_input" ELSE "load_reference",
            ~st.err, more, refs)

\* The state after all_resources.compare(ref_resources) has returned st.
Compared_all(st) ==
    /\ C' = st.C
    /\ P' = st.P
    /\ all_resources' = [containers |-> st.containers, pvcs |-> st.pvcs]

\* One pass of a loading loop of main:
\*   for source in args.inputs: all_resources.load(source, role='input')
\*   for source in args.references: ref_resources.load(source, role='reference')
\* more: the list has a further source; refs: args.references is not None.
Load(res_desc, more, refs) ==
    /\ pc \in {"inputs", "references"}
    /\ pc = "references" => refs
    /\ ItemCount(dump[Role]) + Len(res_desc.items) <= MaxItems
    /\ more => Len(dump[Role]) + 1 < MaxSources
    /\ Loaded_source(load(Heap(IF pc = "inputs" THEN all_resources
                                                ELSE ref_resources), res_desc),
                     res_desc, more, refs)
    /\ UNCHANGED <<resources, output, conv, layout>>

\* if with_changes: all_resources.compare(ref_resources)
Compare ==
    /\ pc = "compare"
    /\ Compared_all(compare(Heap(all_resources), ref_resources))
    /\ Step("compare", TRUE, FALSE, FALSE)
    /\ UNCHANGED <<ref_resources, resources, with_changes, dump, output, conv, layout>>

\* The "Filtering" block of main.
Filter(a) ==
    /\ pc = "filter"
    /\ LET r == main_filter(C, all_resources, a)
       IN  /\ resources' = r.resources
           /\ dump' = [dump EXCEPT !.error = IF r.err THEN Val("filter") ELSE @]
           /\ Step("filter", ~r.err, FALSE, FALSE)
    /\ UNCHANGED <<C, P, all_resources, ref_resources, with_changes, output,
                   conv, layout>>

\* resources.print(output_format=args.output_format, with_changes=with_changes)
Render(output_format) ==
    /\ pc = "print"
    /\ output' = Val(output_format)
    /\ Step("print", TRUE, FALSE, FALSE)
    /\ UNCHANGED <<C, P, all_resources, ref_resources, resources, with_changes,
                   dump, conv, layout>>

\* The rows print() has written: it reads the set it is called on (nothing
\* changes the objects afterwards) and writes to standard output only.
Printed ==
    IF output = Absent THEN <<>>
    ELSE print(C, P, resources, all_resources, output[1], with_changes)

Next ==
    \/ \E res_desc \in Docs, more \in BOOLEAN, refs \in BOOLEAN :
          Load(res_desc, more, refs)
    \/ Compare
    \/ \E a \in FilterArgs : Filter(a)
    \/ \E output_format \in OutputFormats : Render(output_format)

Spec == Init /\ [][Next]_vars

(* ------------------- the unit converter on its own --------------------- *)
\* Mantissas 0 .. MaxMantissa are written in front of every suffix.
MaxMantissa == 3

\* The suffixes res_mem_str_to_bytes tells apart, and no suffix.
Suffixes ==
    [none |-> <<>>, m |-> <<Ch.m>>,
     k |-> <<Ch.k>>, M |-> <<Ch.M>>, G |-> <<Ch.G>>,
     T |-> <<Ch.T>>, P |-> <<Ch.P>>, E |-> <<Ch.E>>,
     ki |-> <<Ch.k, Ch.i>>, Mi |-> <<Ch.M, Ch.i>>, Gi |-> <<Ch.G, Ch.i>>,
     Ti |-> <<Ch.T, Ch.i>>, Pi |-> <<Ch.P, Ch.i>>, Ei |-> <<Ch.E, Ch.i>>]

\* Integer mantissas: the small ones, one below zero, and some of several
\* digits that are scaled to a fraction of the next unit.
Mantissas ==
    {PyInt(FALSE, Digits(n)) : n \in 0..MaxMantissa}
        \cup {PyInt(TRUE, <<1>>), PyInt(FALSE, <<1, 2>>), PyInt(FALSE, <<5, 0, 0>>),
              PyInt(FALSE, <<1, 0, 2, 3>>), PyInt(FALSE, <<1, 2, 8, 0>>),
              PyInt(FALSE, <<1, 3, 5, 0>>), PyInt(FALSE, <<1, 5, 0, 0>>)}

\* Byte counts next to the bounds at which the written unit changes.
Boundaries ==
    {PyInt(FALSE, Add(Pred(Pred(Power(base, n))), d)) :
         base \in {1000, 1024}, n \in 1..6, d \in 0..4}

\* Units: the choices of --units (config['units']).
Units == {"bin", "si", "raw"}

Quantity(mantissa, suffix, quantity) ==
    [at |-> "quantity", mantissa |-> mantissa, suffix |-> suffix,
     quantity |-> quantity, bytes |-> Absent, units |-> Absent,
     text |-> Absent, again |-> Absent]

\* The quantity strings given to the converter: integer mantissas with
\* every suffix, plain byte counts, and strings that are no quantity.
Quantities ==
    {Quantity(Val(n), sfx, str(n) \o Suffixes[sfx]) :
         n \in Mantissas, sfx \in DOMAIN Suffixes}
        \cup {Quantity(Val(n), "none", str(n)) : n \in Boundaries}
        \cup {Quantity(Absent, "none", q) :
                 q \in {<<>>, Q.half, Q.xi1, <<Ch.k>>, Q.half \o <<Ch.k>>,
                        <<Ch.zero + 1, Ch.m, Ch.i>>}}

UnitInit == Constructed /\ conv \in Quantities /\ layout = Idle

\* res_mem_str_to_bytes applied to the quantity, and applied again to the
\* text that was written for its value.
Parse ==
    /\ conv.at \in {"quantity", "text"}
    /\ conv' = IF conv.at = "quantity"
               THEN [conv EXCEPT !.at = "bytes",
                                 !.bytes = Val(res_mem_str_to_bytes(conv.quantity))]
               ELSE [conv EXCEPT !.at = "again",
                                 !.again = Val(res_mem_str_to_bytes(conv.text[1]))]
    /\ UNCHANGED <<C, P, all_resources, ref_resources, resources, with_changes,
                   dump, pc, trace, exit_code, output, layout>>

\* A memory field written by get_formatted_fields under config['units'].
Format(units) ==
    /\ conv.at = "bytes"
    /\ conv.bytes[1].ok
    /\ conv' = [conv EXCEPT !.at = "text", !.units = Val(units),
                            !.text = Val(format_memory(units, conv.bytes[1].val))]
    /\ UNCHANGED <<C, P, all_resources, ref_resources, resources, with_changes,
                   dump, pc, trace, exit_code, output, layout>>

UnitNext == Parse \/ \E units \in Units : Format(units)

UnitSpec == UnitInit /\ [][UnitNext]_vars

(* --------------------- the width scaling on its own --------------------- *)
\* x * k for a float x >= 0 and a machine integer k >= 0: the product has
\* 53 significant bits.
FloatMul(x, k) ==
    LET p == Mul(x.m, k)
        t == ExcessBits(p, 0)
    IN  IF t = 0 THEN [m |-> p, e |-> x.e]
        ELSE [m |-> DivRound(p, 2 ^ t), e |-> x.e + t]

\* d \div 2^bits.
RECURSIVE Shr(_, _)
Shr(d, bits) ==
    IF bits = 0 THEN d
    ELSE Shr(DivMod(d, 2 ^ Min2(bits, 20)).q, bits - Min2(bits, 20))

\* int(x) for a float x >= 0: the integer part.
int_of_float(x) == IF x.e >= 0 THEN Shl(x.m, x.e) ELSE Shr(x.m, 0 - x.e)

\* x > 1.0 for a float x >= 0.
GreaterOne(x) ==
    IF x.e >= 0 THEN Less(<<1>>, Shl(x.m, x.e)) ELSE Less(Shl(<<1>>, 0 - x.e), x.m)

\* config['fields'][field]['min_width'], for the fields that have one.
min_width == [podName |-> 10, name |-> 10, _tree_branch |-> 20]

\* The columns of a view that the model follows; the others, the column
\* separators and the escape sequences of a header line are its `other`
\* characters.
view_columns ==
    [view \in {"table", "tree"} |->
        SelectSeq(config_columns[view].columns_with_diff,
                  LAMBDA column : column \in {"podName", "name", "_tree_branch",
                                              "CPURequests", "change"})]

RECURSIVE SumWidths(_, _)
SumWidths(fields_width, fields) ==
    IF fields = <<>> THEN 0
    ELSE fields_width[Head(fields)] + SumWidths(fields_width, Tail(fields))

\* len() of the header line of a view: every column is as wide as its
\* fields_width.
SampleLength(fields_width, view, other) ==
    SumWidths(fields_width, view_columns[view]) + other

\* scale_optimal_field_width; sample_line is the length of the sample line.
\* The ratio is a float: the quotient of the two widths, at most 1.0; a
\* width is int() of its float product with the ratio.
scale_optimal_field_width(fields_width, scalable_fields, sample_line, max_output_width) ==
    LET actual_scalable_width == SumWidths(fields_width, scalable_fields)
        actual_fixed_width == sample_line - actual_scalable_width
        target_scalable_width == max_output_width - actual_fixed_width
        negative == target_scalable_width < 0
        quotient == FloatDiv(float(Digits(IF negative THEN 0 - target_scalable_width
                                           ELSE target_scalable_width)),
                             actual_scalable_width)
        ratio == IF ~negative /\ GreaterOne(quotient) THEN float(<<1>>) ELSE quotient
        Scaled(width) ==
            LET n == Machine(PyInt(FALSE, int_of_float(FloatMul(ratio, width))))
            IN  IF negative THEN 0 - n ELSE n
    IN  [f \in DOMAIN fields_width |->
            IF \E i \in 1..Len(scalable_fields) : scalable_fields[i] = f
            THEN IF f \in DOMAIN min_width /\ Scaled(fields_width[f]) < min_width[f]
                 THEN min_width[f] ELSE Scaled(fields_width[f])
            ELSE fields_width[f]]

\* The end of set_optimal_field_width: with a positive max_output_width the
\* table columns are scaled against the table header line, then the tree
\* branch against the tree header line.
scale_views(fields_width, other, max_output_width) ==
    IF max_output_width > 0
    THEN LET table == scale_optimal_field_width(
                          fields_width, <<"podName", "name">>,
                          SampleLength(fields_width, "table", other.table),
                          max_output_width)
         IN  scale_optimal_field_width(
                 table, <<"_tree_branch">>,
                 SampleLength(table, "tree", other.tree), max_output_width)
    ELSE fields_width

\* The widths set_optimal_field_width has found before it scales: no column
\* is narrower than its header and than the text of the summary rows.
MaxExtra == 1
Widths ==
    {[podName |-> p, name |-> n, _tree_branch |-> t, CPURequests |-> 6, change |-> c] :
         p \in {31, 44} \cup {45 + i : i \in 0..MaxExtra},
         n \in {23, 30},
         t \in {60, 75, 90},
         c \in {6, 17}}

\* config['max_output_width'] once the terminal size is known: 0 is no limit.
OutputWidths == {0, 40, 80, 88, 117, 125, 160, 200, 300}

Layouts ==
    {[at |-> "measured", fields_width |-> w, other |-> [table |-> o, tree |-> o],
      max_output_width |-> m, scaled |-> Absent] :
         w \in Widths, o \in {50, 66}, m \in OutputWidths}

WidthInit == Constructed /\ conv = Idle /\ layout \in Layouts

Scale ==
    /\ layout.at = "measured"
    /\ layout' = [layout EXCEPT
                     !.at = "scaled",
                     !.scaled = Val(scale_views(layout.fields_width, layout.other,
                                                layout.max_output_width))]
    /\ UNCHANGED <<C, P, all_resources, ref_resources, resources, with_changes,
                   dump, pc, trace, exit_code, output, conv>>

WidthNext == Scale

WidthSpec == WidthInit /\ [][WidthNext]_vars

(* ------------------- the loading of one snapshot ----------------------- *)
\* Items in all the sources of a snapshot that is loaded on its own.
MaxSnapshotItems == 3

\* Documents of items that satisfy the input contract.
SnapshotDocs ==
    {[apiVersion |-> "v1", items |-> it] : it \in SeqsUpTo(GoodItems, MaxSnapshotItems)}

\* One pass of the loop over args.inputs, for a run without references.
LoadSnapshot(res_desc, more) ==
    /\ pc = "inputs"
    /\ ItemCount(dump.input) + Len(res_desc.items) <= MaxSnapshotItems
    /\ more => Len(dump.input) + 1 < MaxSources
    /\ Loaded_source(load(Heap(all_resources), res_desc), res_desc, more, FALSE)
    /\ UNCHANGED <<resources, output, conv, layout>>

LoadNext == \E res_desc \in SnapshotDocs, more \in BOOLEAN : LoadSnapshot(res_desc, more)

LoadSpec == Init /\ [][LoadNext]_vars

(* ============================ properties =============================== *)
Range(seq) == {seq[k] : k \in 1..Len(seq)}

Occurrences(seq, x) == Cardinality({k \in 1..Len(seq) : seq[k] = x})

\* The step in which main calls all_resources.compare(ref_resources).
CompareStep == pc = "compare" /\ pc' # "compare"

\* compare() has returned.
Compared == \E k \in 1..Len(trace) : trace[k].op = "compare"

ContainerKeys(rs) == {C[id].key : id \in Range(rs.containers)}

PVCKeys(rs) == {P[id].key : id \in Range(rs.pvcs)}

\* The reference container a current container is matched with by key: the
\* first one of the reference list with that key (0: none).
MatchOf(id) ==
    LET ks == ref_resources.containers
        Hit == {j \in 1..Len(ks) : C[ks[j]].key = C[id].key}
    IN  IF Hit = {} THEN 0 ELSE ks[CHOOSE j \in Hit : \A k \in Hit : j <= k]

\* The resource fields whose value differs between two container records.
Differing(cur, ref) == {f \in Range(CheckedFields) : cur[f] # ref[f]}

\* C1: after compare(), every container of the current snapshot that is
\* matched by key with a reference container has changedFields equal to the
\* set of resource fields in which the two differ, is 'Modified' exactly when
\* that set is not empty, and is 'Unchanged' otherwise.
C1_DiffCompleteness ==
    [][CompareStep =>
        \A id \in Range(all_resources.containers) :
            MatchOf(id) # 0 =>
                LET D == Differing(C[id], C[MatchOf(id)])
                IN  /\ C'[id].changedFields = D
                    /\ (C'[id].change = "Modified") <=> (D # {})
                    /\ (D = {}) => (C'[id].change = "Unchanged")]_vars

\* A diff result with a container modified in two or more fields next to an
\* unchanged one.
C1_Witness ==
    /\ Compared
    /\ \E id \in Range(all_resources.containers) :
          C[id].change = "Modified" /\ Cardinality(C[id].changedFields) >= 2
    /\ \E id \in Range(all_resources.containers) :
          C[id].change = "Unchanged" /\ C[id].ref_CPURequests > 0

LiveZeroed(c) ==
    \A f \in Range(ComparedFields) : c[f] = IF f \in SetFields THEN {} ELSE 0

\* C2 (as claimed): after compare(), every reference container or PVC whose
\* key is absent from the current set appears exactly once in the diffed
\* current set, classified as deleted, with its live fields zeroed and its
\* ref_* fields holding the live values it had before the comparison.
C2_DeletionSymmetry ==
    [][CompareStep =>
        /\ \A r \in Range(ref_resources.containers) :
              C[r].key \notin ContainerKeys(all_resources) =>
                  /\ Occurrences(all_resources'.containers, r) = 1
                  /\ C'[r].change \in {"Deleted Pod", "Deleted Container"}
                  /\ LiveZeroed(C'[r])
                  /\ \A f \in Range(ComparedFields) : C'[r][RefField[f]] = C[r][f]
        /\ \A r \in Range(ref_resources.pvcs) :
              P[r].key \notin PVCKeys(all_resources) =>
                  /\ Occurrences(all_resources'.pvcs, r) = 1
                  /\ P'[r].change = "Deleted"
                  /\ P'[r].requests = 0
                  /\ P'[r].ref_requests = P[r].requests]_vars

\* C3: in the diff result, a pod (the containers of one podKey) whose
\* containers all carry the same classification has none left as 'New
\* Container' or 'Deleted Container' (they are 'New Pod' / 'Deleted Pod'); a
\* pod with mixed classifications has no container promoted. A container's
\* own classification is New for an unmatched current container, Deleted for
\* a borrowed reference container, Unchanged or Modified for a matched one.
Base(change) ==
    IF change = "New Pod" THEN "New Container"
    ELSE IF change = "Deleted Pod" THEN "Deleted Container"
    ELSE change

C3_PromotionRule ==
    [][CompareStep =>
        /\ \A id \in Range(all_resources.containers) :
              Base(C'[id].change) =
                  IF MatchOf(id) = 0 THEN "New Container"
                  ELSE IF Differing(C[id], C[MatchOf(id)]) # {} THEN "Modified"
                  ELSE "Unchanged"
        /\ \A id \in Range(all_resources'.containers) \ Range(all_resources.containers) :
              Base(C'[id].change) = "Deleted Container"
        /\ \A id \in Range(all_resources'.containers) :
              LET G == {x \in Range(all_resources'.containers) :
                          C'[x].podKey = C'[id].podKey}
                  uniform == \A x \in G, y \in G :
                                Base(C'[x].change) = Base(C'[y].change)
              IN  IF uniform
                  THEN C'[id].change \notin {"New Container", "Deleted Container"}
                  ELSE C'[id].change \notin {"New Pod", "Deleted Pod"}]_vars

\* A diff result holding a pod promoted as a whole ('New Pod') and a pod with
\* a new container left unpromoted beside a modified one.
C3_Witness ==
    /\ Compared
    /\ \E x \in Range(all_resources.containers) : C[x].change = "New Pod"
    /\ \E x \in Range(all_resources.containers), y \in Range(all_resources.containers) :
          /\ C[x].podKey = C[y].podKey
          /\ C[x].change = "New Container" /\ C[y].change = "Modified"

\* The last completed operation was a load() that returned: both sets are as
\* renew_keys and renew_relations left them.
Loaded ==
    /\ trace # <<>>
    /\ \A k \in 1..Len(trace) :
          trace[k].ok /\ trace[k].op \in {"load_input", "load_reference"}

SortTuple(c) == <<c.appName, c.podName, c.name>>

TupleSorted(ids) ==
    \A k \in 1..(Len(ids) - 1) : TupleLE(SortTuple(C[ids[k]]), SortTuple(C[ids[k + 1]]))

PodLocalRestarts(ids) ==
    \A k \in 1..Len(ids) :
        C[ids[k]].podLocalIndex =
            IF k = 1 \/ C[ids[k - 1]].appName # C[ids[k]].appName THEN 1
            ELSE IF C[ids[k - 1]].podName # C[ids[k]].podName
                 THEN C[ids[k - 1]].podLocalIndex + 1
                 ELSE C[ids[k - 1]].podLocalIndex

\* C4 (as claimed): after index renewal the container list of a resource set
\* is non-decreasing in the tuple order (appName, podName, name), and
\* podLocalIndex is 1 at the first pod of each app group and grows by one at
\* each pod change inside the group.
C4_IndexInvariant ==
    Loaded =>
        \A rs \in {all_resources, ref_resources} :
            TupleSorted(rs.containers) /\ PodLocalRestarts(rs.containers)

\* The part of C4 about podLocalIndex alone.
C4_PodLocalOnly ==
    Loaded =>
        \A rs \in {all_resources, ref_resources} : PodLocalRestarts(rs.containers)

\* No load() has raised: every set is as its last completed load() left it,
\* or, for the current set after compare(), the diff result.
LoadsCompleted ==
    \A k \in 1..Len(trace) :
        trace[k].op \in {"load_input", "load_reference"} => trace[k].ok

\* The sets the relation invariants speak about: the current set (the diff
\* result once compare() has run) and the reference set as loaded.
LinkedSets ==
    IF ~LoadsCompleted THEN {}
    ELSE IF Compared THEN {all_resources}
    ELSE {all_resources, ref_resources}

LiveContainers(rs) ==
    {id \in Range(rs.containers) :
        C[id].change \notin {"Deleted Pod", "Deleted Container"}}

\* The non-deleted PVCs of the set with the given name.
LivePVCsNamed(rs, name) ==
    {p \in Range(rs.pvcs) : P[p].name = name /\ P[p].change # "Deleted"}

\* The claim names of a container for which a non-deleted PVC exists.
ExistingClaims(rs, id) == {n \in C[id].PVCList : LivePVCsNamed(rs, n) # {}}

\* The sums of requests over one non-deleted PVC per name.
RECURSIVE RequestSums(_, _)
RequestSums(rs, names) ==
    IF names = {} THEN {0}
    ELSE LET n == CHOOSE x \in names : TRUE
         IN  {P[p].requests + s : p \in LivePVCsNamed(rs, n),
                                  s \in RequestSums(rs, names \ {n})}

C6_ReferenceFrame ==
    [][CompareStep =>
        /\ ref_resources' = ref_resources
        /\ \A r \in Range(ref_resources.containers) :
              C[r].key \in ContainerKeys(all_resources) => C'[r] = C[r]
        /\ \A r \in Range(ref_resources.pvcs) :
              P[r].key \in PVCKeys(all_resources) => P'[r] = P[r]]_vars

\* A diff result in which a reference container was matched with a modified
\* current container (and is not part of the result) while a reference PVC
\* was borrowed as a deleted entry.
C6_Witness ==
    /\ Compared
    /\ \E r \in Range(ref_resources.containers) :
          /\ r \notin Range(all_resources.containers)
          /\ \E id \in Range(all_resources.containers) :
                C[id].key = C[r].key /\ C[id].change = "Modified"
    /\ \E p \in Range(ref_resources.pvcs) :
          p \in Range(all_resources.pvcs) /\ P[p].change = "Deleted"

\* The place of an operation in the order of main.
Rank(op) ==
    IF op = "load_input" THEN 1
    ELSE IF op = "load_reference" THEN 2
    ELSE IF op = "compare" THEN 3
    ELSE IF op = "filter" THEN 4
    ELSE 5

Called(op) == \E k \in 1..Len(trace) : trace[k].op = op

Completed(op) == \E k \in 1..Len(trace) : trace[k].op = op /\ trace[k].ok

\* C7: the operations of a run happen in the order load (all current sources,
\* then all reference sources), compare, filter, render, each of the last
\* three at most once; compare() is called only after a load of the current
\* and a load of the reference set have completed (a load includes index
\* renewal and relation linking), no load follows compare(), a run with
\* references filters only after compare(), and rendering starts only after
\* the filter step has completed.
C7_StepOrder ==
    /\ \A i \in 1..Len(trace), j \in 1..Len(trace) :
          i < j => /\ Rank(trace[i].op) <= Rank(trace[j].op)
                   /\ Rank(trace[i].op) >= 3 => Rank(trace[i].op) < Rank(trace[j].op)
    /\ Called("compare") =>
          /\ Completed("load_input") /\ Completed("load_reference")
          /\ \A k \in 1..Len(trace) :
                trace[k].op \in {"load_input", "load_reference"} => trace[k].ok
    /\ (Called("filter") /\ Called("load_reference")) => Completed("compare")
    /\ Called("print") => Completed("filter")
    /\ Called("filter") => Completed("load_input")

\* A finished run with two current sources, two reference sources, a
\* comparison, a filter and a rendering.
C7_Witness ==
    /\ pc = "done"
    /\ Len(trace) = 7
    /\ Called("compare") /\ Called("print")
    /\ output # <<>>

AllOk(n) == \A k \in 1..n : trace[k].ok

\* C8: a run ends with exit code 0 after its loads, the comparison (if any),
\* the filter and the rendering have all completed, or with a non-zero exit
\* code right after the first operation that raised; no operation is called
\* after a failed one, and a run that has not ended has no failed operation
\* and no exit code.
C8_ExitOutcome ==
    /\ pc = "done" =>
          /\ exit_code = Val(0)
          /\ AllOk(Len(trace))
          /\ Completed("load_input") /\ Completed("filter") /\ Completed("print")
          /\ with_changes => Completed("compare")
    /\ pc = "failed" =>
          /\ exit_code # Absent /\ exit_code # Val(0)
          /\ trace # <<>>
          /\ ~trace[Len(trace)].ok
          /\ AllOk(Len(trace) - 1)
    /\ Running => exit_code = Absent /\ AllOk(Len(trace))

\* Once main has ended no operation is called any more.
C8_NothingAfterExit ==
    [][~Running => FALSE]_vars

\* A run that failed in the filter step after a completed comparison: it
\* ended with exit code 1 and printed nothing.
C8_Witness ==
    /\ pc = "failed"
    /\ Completed("compare")
    /\ exit_code = Val(1)
    /\ output = <<>>

\* A quantity that is present and that the converter does not accept.
BadCpu(opt) == opt # Absent /\ ~res_cpu_str_to_millicores(opt[1]).ok

BadMem(opt) == opt # Absent /\ ~res_mem_str_to_bytes(opt[1]).ok

\* A container description that breaks the input contract inside the pod
\* with the given volumes.
ContainerViolates(cd, volumes) ==
    \/ BadCpu(cd.cpuRequests) \/ BadCpu(cd.cpuLimits)
    \/ BadMem(cd.memRequests) \/ BadMem(cd.memLimits)
    \/ BadMem(cd.ephRequests) \/ BadMem(cd.ephLimits)
    \/ \E m \in Range(cd.volumeMounts) :
          \/ \A v \in Range(volumes) : v.name # m
          \/ \E v \in Range(volumes) : v.name = m /\ Cardinality(v.keys) # 1

ItemViolates(item) ==
    \/ item.kind \notin {"Pod", "PersistentVolumeClaim"}
    \/ /\ item.kind = "Pod"
       /\ \/ Len(item.ownerReferences) # 1
          \/ \E cd \in Range(item.initContainers) \cup Range(item.containers) :
                ContainerViolates(cd, item.volumes)
    \/ item.kind = "PersistentVolumeClaim" /\ BadMem(Val(item.storage))

DocViolates(doc) == \E item \in Range(doc.items) : ItemViolates(item)

LoadedDocs == Range(dump.input) \cup Range(dump.reference)

\* C9: when an item of a loaded document violates the input contract (kind
\* other than Pod or PersistentVolumeClaim, a Pod without exactly one
\* ownerReferences entry, a volumeMount naming no volume of the pod, a mounted
\* volume without exactly one non-name key, an unparseable quantity), the
\* load() of that document raised: the run has ended with an error, the
\* failed load is the last operation, and nothing was compared or rendered.
C9_ContractViolationsFatal ==
    (\E doc \in LoadedDocs : DocViolates(doc)) =>
        /\ pc = "failed"
        /\ exit_code = Val(1)
        /\ dump.error = Val("load")
        /\ trace[Len(trace)].op \in {"load_input", "load_reference"}
        /\ ~trace[Len(trace)].ok
        /\ ~Called("compare") /\ ~Called("filter") /\ ~Called("print")
        /\ output = <<>>

\* A run aborted by a contract violation in a reference document after the
\* current snapshot had been loaded.
C9_Witness ==
    /\ \E doc \in Range(dump.reference) : DocViolates(doc)
    /\ Completed("load_input")
    /\ pc = "failed"

\* C10: a claim name without PVC in the inventory does not make load() raise
\* (documents that keep the input contract always load), and after a
\* completed load, and in the diff result, PVCList_not_found of every
\* non-deleted container is exactly the set of names of its PVCList for which
\* the set holds no non-deleted PVC.
C10_MissingClaimRecorded ==
    /\ (\A doc \in LoadedDocs : doc.apiVersion = "v1" /\ ~DocViolates(doc)) =>
          /\ LoadsCompleted
          /\ dump.error # Val("load")
    /\ \A rs \in LinkedSets :
          \A id \in LiveContainers(rs) :
              C[id].PVCList_not_found = C[id].PVCList \ ExistingClaims(rs, id)

\* A run that ended normally although a live container mounts a claim that
\* has no PVC, next to a claim that has one.
C10_Witness ==
    /\ pc = "done"
    /\ \E id \in LiveContainers(all_resources) :
          /\ C[id].PVCList_not_found # {}
          /\ C[id].PVCList_not_found # C[id].PVCList

(* ------------------------ C11: unit multipliers ------------------------ *)
\* The multiplier of each suffix: 1000^1..6 for k, M, G, T, P, E and
\* 1024^1..6 for ki, Mi, Gi, Ti, Pi, Ei, in digits.
Multiplier ==
    [k |-> <<1, 0, 0, 0>>,
     M |-> <<1, 0, 0, 0, 0, 0, 0>>,
     G |-> <<1, 0, 0, 0, 0, 0, 0, 0, 0, 0>>,
     T |-> <<1, 0, 0, 0, 0, 0, 0, 0, 0, 0, 0, 0, 0>>,
     P |-> <<1, 0, 0, 0, 0, 0, 0, 0, 0, 0, 0, 0, 0, 0, 0, 0>>,
     E |-> <<1, 0, 0, 0, 0, 0, 0, 0, 0, 0, 0, 0, 0, 0, 0, 0, 0, 0, 0>>,
     ki |-> <<1, 0, 2, 4>>,
     Mi |-> <<1, 0, 4, 8, 5, 7, 6>>,
     Gi |-> <<1, 0, 7, 3, 7, 4, 1, 8, 2, 4>>,
     Ti |-> <<1, 0, 9, 9, 5, 1, 1, 6, 2, 7, 7, 7, 6>>,
     Pi |-> <<1, 1, 2, 5, 8, 9, 9, 9, 0, 6, 8, 4, 2, 6, 2, 4>>,
     Ei |-> <<1, 1, 5, 2, 9, 2, 1, 5, 0, 4, 6, 0, 6, 8, 4, 6, 9, 7, 6>>]

\* n times the multiplier of the suffix; n itself without a suffix.
Scaled(n, suffix) ==
    IF suffix = "none" THEN n
    ELSE PyInt(n.neg, Mul(Multiplier[suffix], Value(n.mag)))

\* C11: res_mem_str_to_bytes maps an integer mantissa n followed by k, M, G,
\* T, P, E to n * 1000^1..6, followed by ki, Mi, Gi, Ti, Pi, Ei to
\* n * 1024^1..6, and without a suffix to n.
C11_UnitMultipliers ==
    (/\ conv.at = "bytes"
     /\ conv.mantissa # Absent
     /\ conv.suffix \in DOMAIN Multiplier \cup {"none"})
        => conv.bytes[1] = [ok |-> TRUE,
                            val |-> Scaled(conv.mantissa[1], conv.suffix)]

\* "1Gi" has been converted to 1024^3 = 1073741824.
C11_Witness ==
    /\ conv.at = "bytes"
    /\ conv.quantity = <<Ch.zero + 1, Ch.G, Ch.i>>
    /\ conv.bytes[1].val = PyInt(FALSE, <<1, 0, 7, 3, 7, 4, 1, 8, 2, 4>>)


(* ------------------------ C12: unit round trip ------------------------- *)
\* a + b on digits.
RECURSIVE Sum(_, _, _)
Sum(a, b, carry) ==
    IF a = <<>> /\ b = <<>> THEN (IF carry = 0 THEN <<>> ELSE <<carry>>)
    ELSE LET x == IF a = <<>> THEN 0 ELSE a[Len(a)]
             y == IF b = <<>> THEN 0 ELSE b[Len(b)]
             t == x + y + carry
         IN  Sum(SliceTo(a, Len(a) - 1), SliceTo(b, Len(b) - 1), t \div 10)
                 \o <<t % 10>>

LessEq(a, b) == a = b \/ Less(a, b)

\* The multiplier of the unit a written text ends with (1 without a unit).
WrittenUnit(text) ==
    LET two == {u \in DOMAIN Multiplier : Len(Suffixes[u]) = 2
                                            /\ LastChars(text, 2) = Suffixes[u]}
        one == {u \in DOMAIN Multiplier : Len(Suffixes[u]) = 1
                                            /\ LastChars(text, 1) = Suffixes[u]}
    IN  IF two # {} THEN Multiplier[CHOOSE u \in two : TRUE]
        ELSE IF one # {} THEN Multiplier[CHOOSE u \in one : TRUE]
        ELSE <<1>>

\* a and b differ by at most one tenth of the unit.
Near(a, b, unit) ==
    \/ a = b
    \/ /\ ~a.neg /\ ~b.neg
       /\ LessEq(Mul(a.mag, 10), Strip(Sum(Mul(b.mag, 10), unit, 0)))
       /\ LessEq(Mul(b.mag, 10), Strip(Sum(Mul(a.mag, 10), unit, 0)))

\* C12: for a quantity x with an integer mantissa and a supported suffix, the
\* text written for res_mem_str_to_bytes(x) in binary or decimal units is
\* accepted by res_mem_str_to_bytes again, and the value read back differs
\* from res_mem_str_to_bytes(x) by at most one decimal place of the written
\* unit.
C12_RoundTrip ==
    (/\ conv.at = "again"
     /\ conv.mantissa # Absent
     /\ conv.suffix \in DOMAIN Multiplier
     /\ conv.units[1] \in {"bin", "si"})
        => /\ conv.again[1].ok
           /\ Near(conv.again[1].val, conv.bytes[1].val, WrittenUnit(conv.text[1]))


(* -------------------------- C13: summary rows -------------------------- *)
\* A table or a tree has been printed.
Tabular == output \in {Val("table"), Val("tree")}

\* Positions of the non-deleted containers of the rendered set.
LivePositions ==
    {k \in 1..Len(resources.containers) : ~is_deleted(C[resources.containers[k]])}

\* Those of them whose workload is not a Job and whose type is not init.
RegularPositions ==
    {k \in LivePositions : /\ C[resources.containers[k]].workloadType # S.Job
                            /\ C[resources.containers[k]].type # S.init}

RECURSIVE TotalOf(_, _)
TotalOf(K, field) ==
    IF K = {} THEN 0
    ELSE LET k == CHOOSE j \in K : TRUE
         IN  C[resources.containers[k]][field] + TotalOf(K \ {k}, field)

ClaimsOf(K) == UNION {C[resources.containers[k]].PVCList : k \in K}

LivePVCs == {j \in 1..Len(resources.pvcs) : ~pvc_is_deleted(P[resources.pvcs[j]])}

\* The requests of the distinct claims, one non-deleted PVC per claim name.
RECURSIVE ClaimRequests(_)
ClaimRequests(names) ==
    IF names = {} THEN 0
    ELSE LET n == CHOOSE x \in names : TRUE
             J == {j \in LivePVCs : P[resources.pvcs[j]].name = n}
         IN  (IF J = {} THEN 0
              ELSE P[resources.pvcs[CHOOSE j \in J : \A h \in J : j <= h]].requests)
             + ClaimRequests(names \ {n})

\* The summary item gives the totals over the containers at the positions K.
TotalsOver(item, K) ==
    /\ \A f \in {"CPURequests", "CPULimits", "memoryRequests", "memoryLimits",
                  "ephStorageRequests", "ephStorageLimits"} :
           item[f] = TotalOf(K, f)
    /\ item.PVCRequests = ClaimRequests(ClaimsOf(K))
    /\ item.PVCQuantity = Cardinality(ClaimsOf(K))
    /\ item.podName.used_pvcs = Cardinality(ClaimsOf(K))
    /\ item.podName.all_pvcs = Cardinality(LivePVCs)
    /\ item.name.filtered = Cardinality(K)

\* C13: table and tree output end with exactly two summary rows, after all
\* other rows: the first gives the totals over the non-deleted containers of
\* the rendered set with PVC usage (distinct claims referenced)/(non-deleted
\* PVCs), the second the same over the containers whose workload type is not
\* Job and whose type is not init.
C13_SummaryRows ==
    Tabular =>
        \A rows \in {Printed} :
            LET n == Len(rows)
            IN  /\ n >= 2
                /\ \A k \in 1..n : (rows[k].kind = "summary") <=> (k >= n - 1)
                /\ \A item \in {rows[n - 1].item} : TotalsOver(item, LivePositions)
                /\ \A item \in {rows[n].item} : TotalsOver(item, RegularPositions)

\* A table or tree was printed for a set with a deleted container, an init
\* container and a regular one: the two summary rows differ.
C13_Witness ==
    /\ Tabular
    /\ \E k \in 1..Len(resources.containers) : is_deleted(C[resources.containers[k]])
    /\ \E rows \in {Printed} :
          /\ rows[Len(rows) - 1].item.name.filtered = 2
          /\ rows[Len(rows)].item.name.filtered = 1
          /\ rows[Len(rows)].item.CPURequests < rows[Len(rows) - 1].item.CPURequests



(* ------------------------------- C14 ----------------------------------- *)
\* C14: the csv output of a set of N containers is exactly one header row
\* followed by the N container rows in list order, so it holds no summary
\* and no separator row; and each separator line and summary row of the
\* table and tree output raises when asked for its CSV form.
C14_CsvRows ==
    /\ output = Val("csv") =>
           \A rows \in {Printed} :
               /\ Len(rows) = Len(resources.containers) + 1
               /\ rows[1].kind = "header"
               /\ \A k \in 1..Len(resources.containers) :
                      /\ rows[k + 1].kind = "container"
                      /\ rows[k + 1].id = resources.containers[k]
    /\ Tabular =>
           \A rows \in {Printed} :
               \A k \in 1..Len(rows) :
                   rows[k].kind \in {"line", "summary"}
                       => ~make_csv_lines(rows[k]).ok

\* A set of two containers, one of them deleted, was written as csv.
C14_Witness ==
    /\ output = Val("csv")
    /\ Len(resources.containers) = 2
    /\ \E k \in 1..2 : is_deleted(C[resources.containers[k]])
    /\ Len(Printed) = 3


(* ------------------------------- C15 ----------------------------------- *)
\* The k-th container of the printed set starts a run of equal podKey.
StartsPod(k) ==
    k = 1 \/ C[resources.containers[k - 1]].podKey # C[resources.containers[k]].podKey

\* C15: in tree output the container lines are the containers in list
\* order, one line each; a pod header line stands directly in front of a
\* container's line if and only if the container is the first one or its
\* podKey differs from that of the container before it; so the number of pod
\* header lines is the number of maximal runs of equal podKey.
C15_TreePodHeaders ==
    output = Val("tree") =>
        \A rows \in {Printed} :
            LET cs == resources.containers
                body == SelectSeq(rows, LAMBDA r : r.kind \in {"pod", "container"})
                Nth(j) == Cardinality({i \in 1..j : body[i].kind = "container"})
            IN  /\ SelectSeq(body, LAMBDA r : r.kind = "container")
                       = [k \in 1..Len(cs) |-> Row("container", cs[k])]
                /\ \A j \in 1..Len(body) :
                       body[j].kind = "pod" =>
                           /\ j < Len(body)
                           /\ body[j + 1] = Row("container", body[j].id)
                /\ \A j \in 1..Len(body) :
                       body[j].kind = "container" =>
                           ((j > 1 /\ body[j - 1].kind = "pod") <=> StartsPod(Nth(j)))
                /\ Cardinality({j \in 1..Len(body) : body[j].kind = "pod"})
                       = Cardinality({k \in 1..Len(cs) : StartsPod(k)})

\* A tree was printed for two containers of one pod: one pod header line.
C15_Witness ==
    /\ output = Val("tree")
    /\ Len(resources.containers) = 2
    /\ ~StartsPod(2)
    /\ \E rows \in {Printed} :
          Cardinality({j \in 1..Len(rows) : rows[j].kind = "pod"}) = 1

\* A tree was printed for containers of two pods: two pod header lines.
C15_TwoPods ==
    /\ output = Val("tree")
    /\ Len(resources.containers) = 2
    /\ StartsPod(2)


(* ------------------------------- C16 ----------------------------------- *)
\* The ratio of the claim, min(1, max(0, target - fixed) / scalable), as
\* the fraction num / den.
ClaimedRatio(fields_width, scalable_fields, sample_line, max_output_width) ==
    LET scalable == SumWidths(fields_width, scalable_fields)
        fixed == sample_line - scalable
        room == IF max_output_width - fixed < 0 THEN 0 ELSE max_output_width - fixed
    IN  [num |-> Min2(room, scalable), den |-> scalable]

\* max(minWidth, floor(oldWidth x ratio)).
ClaimedWidth(old, ratio, f) ==
    LET w == (old * ratio.num) \div ratio.den
    IN  IF w < min_width[f] THEN min_width[f] ELSE w

\* C16: with a positive target width every scalable column has the width
\* max(minWidth, floor(oldWidth x ratio)), ratio = min(1, max(0, targetWidth -
\* fixedWidth) / scalableWidth); no column is wider than before, no scalable
\* column is below its minimum width, the other columns are unchanged.
C16_WidthScaling ==
    (layout.at = "scaled" /\ layout.max_output_width > 0) =>
        LET old == layout.fields_width
            new == layout.scaled[1]
            table == ClaimedRatio(old, <<"podName", "name">>,
                                  SampleLength(old, "table", layout.other.table),
                                  layout.max_output_width)
            tree == ClaimedRatio(old, <<"_tree_branch">>,
                                 SampleLength(old, "tree", layout.other.tree),
                                 layout.max_output_width)
        IN  /\ new.podName = ClaimedWidth(old.podName, table, "podName")
            /\ new.name = ClaimedWidth(old.name, table, "name")
            /\ new._tree_branch = ClaimedWidth(old._tree_branch, tree, "_tree_branch")
            /\ \A f \in DOMAIN old : new[f] <= old[f]
            /\ \A f \in DOMAIN min_width : new[f] >= min_width[f]
            /\ \A f \in DOMAIN old \ DOMAIN min_width : new[f] = old[f]

\* What holds of the scaling: the widths are those of the claim or one
\* character less, and the three consequences the claim draws.
C16_Consequences ==
    (layout.at = "scaled" /\ layout.max_output_width > 0) =>
        LET old == layout.fields_width
            new == layout.scaled[1]
        IN  /\ \A f \in DOMAIN old : new[f] <= old[f]
            /\ \A f \in DOMAIN min_width : new[f] >= min_width[f]
            /\ \A f \in DOMAIN old \ DOMAIN min_width : new[f] = old[f]


(* ------------------------------- C17 ----------------------------------- *)
\* The sets whose containers have been through generate_keys: both sets
\* once the loads are completed.
KeyedSets == IF LoadsCompleted THEN {all_resources, ref_resources} ELSE {}

\* The part of the derivation all statements agree on.
AppAndPodKey(c) ==
    /\ c.appKey = c.appName
    /\ c.podKey = c.appKey \o S.slash \o IntToStr(c.podLocalIndex)

\* C17 as stated: appKey = appName, podKey = appKey + "/" + podLocalIndex and
\* key = podKey + "/" + name, for every container.
C17_KeysAsStated ==
    \A rs \in KeyedSets :
        \A id \in Range(rs.containers) :
            /\ AppAndPodKey(C[id])
            /\ C[id].key = C[id].podKey \o S.slash \o C[id].name

\* C17 amended: appKey = appName, podKey = appKey + "/" + podLocalIndex and
\* key = podKey + "/" + type + "/" + name, for every container of a loaded
\* set, from the container's current field values.
C17_Keys ==
    \A rs \in KeyedSets :
        \A id \in Range(rs.containers) :
            /\ AppAndPodKey(C[id])
            /\ C[id].key = C[id].podKey \o S.slash \o C[id].type
                                \o S.slash \o C[id].name

\* A loaded set holds an init container and a regular one of one pod; their
\* keys differ in the type.
C17_Witness ==
    /\ LoadsCompleted
    /\ \E i, j \in Range(all_resources.containers) :
          /\ C[i].podKey = C[j].podKey
          /\ C[i].type = S.init
          /\ C[j].type # S.init
          /\ C[i].key # C[j].key


(* ------------------------------- C18 ----------------------------------- *)
\* The criteria of a run with -F, once parsed.
InverseCriteria(a) == parse_filter_expression(a.inverse_filter_criteria[1])

\* C18: the containers returned with inverse=True are exactly the containers
\* of the set that are not returned with inverse=False for the same criteria.
C18_InversePartition ==
    [][\A a \in FilterArgs :
          (/\ a.inverse_filter_criteria # Absent
           /\ ~InverseCriteria(a).err
           /\ Filter(a))
              => \A id \in Range(all_resources.containers) :
                     (id \in Range(resources'.containers))
                         <=> (id \notin Range(filter(C, all_resources,
                                                     InverseCriteria(a).fields,
                                                     FALSE).containers))]_vars


(* ------------------------------- C19 ----------------------------------- *)
\* The suffixes of a unit system, and those of them whose multiplier is at
\* most the value (the scaled value is at least 1).
SuffixesOf(units) ==
    {u \in DOMAIN Multiplier : Len(Suffixes[u]) = IF units = "bin" THEN 2 ELSE 1}

Fitting(units, value) ==
    {u \in SuffixesOf(units) : ~value.neg /\ LessEq(Multiplier[u], value.mag)}

\* C19: in binary and decimal mode the written text ends with the largest
\* suffix whose multiplier is at most the value, and with no suffix when there
\* is none; and the text is "0" exactly when the value is 0.
C19_LargestSuffix ==
    (conv.at = "text" /\ conv.units[1] \in {"bin", "si"}) =>
        LET value == conv.bytes[1].val
            text == conv.text[1]
            fitting == Fitting(conv.units[1], value)
        IN  /\ fitting = {} =>
                   /\ WrittenUnit(text) = <<1>>
                   /\ text = str(value)
            /\ fitting # {} =>
                   /\ WrittenUnit(text) \in {Multiplier[u] : u \in fitting}
                   /\ \A u \in fitting : LessEq(Multiplier[u], WrittenUnit(text))
            /\ (text = <<Ch.zero>>) <=> (value.mag = <<0>>)

\* 1024^2 - 1 bytes were written in binary mode: "1024.0ki", not yet Mi.
C19_Witness ==
    /\ conv.at = "text"
    /\ conv.units = Val("bin")
    /\ conv.bytes[1].val = PyInt(FALSE, <<1, 0, 4, 8, 5, 7, 5>>)
    /\ conv.text = Val(<<Ch.zero + 1, Ch.zero, Ch.zero + 2, Ch.zero + 4, Ch.dot,
                         Ch.zero, Ch.k, Ch.i>>)


(* ------------------------------- C20 ----------------------------------- *)
\* The item a printed container or summary row was made of.
ItemOf(row) == IF row.kind = "summary" THEN row.item ELSE C[row.id]

\* The changed field a column stands for: its name without a ref_ prefix.
FieldOf(column) == IF column \in DOMAIN RefColumns THEN RefColumns[column] ELSE column

\* C20: in a printed row whose change is 'Modified' a column has the Modified
\* colour if and only if it is the change column or its field name, without
\* a ref_ prefix, is in the changedFields of the row, and has the Unchanged
\* colour otherwise; in a row of any other classification every column has
\* the colour of the classification.
C20_ModifiedColumns ==
    Tabular =>
        \A rows \in {Printed} :
            \A k \in 1..Len(rows) :
                rows[k].kind \in {"container", "summary"} =>
                    LET item == ItemOf(rows[k])
                        cells == row_colors(C, rows[k], output[1], with_changes)
                    IN  \A i \in 1..Len(cells) :
                            /\ item.change = "Modified" =>
                                   /\ (cells[i].color.key = "Modified")
                                          <=> (\/ cells[i].column = "change"
                                               \/ FieldOf(cells[i].column)
                                                      \in item.changedFields)
                                   /\ cells[i].color.key \in {"Modified", "Unchanged"}
                            /\ item.change # "Modified" =>
                                   cells[i].color.key = item.change
                            /\ cells[i].color.map \in {"changes", "changes_bold"}

\* A table with the comparison held a Modified container whose CPU requests
\* changed and whose CPU limits did not.
C20_Witness ==
    /\ output = Val("table")
    /\ with_changes
    /\ \E k \in 1..Len(resources.containers) :
          LET c == C[resources.containers[k]]
          IN  /\ c.change = "Modified"
              /\ "CPURequests" \in c.changedFields
              /\ "CPULimits" \notin c.changedFields
              /\ column_color(c, "ref_CPURequests", TRUE, FALSE).key = "Modified"
              /\ column_color(c, "ref_CPULimits", TRUE, FALSE).key = "Unchanged"

(* ------------------------------- C21 ----------------------------------- *)
PodIndices(ids) == {C[id].podIndex : id \in Range(ids)}

SamePodIndexIffSamePod(ids) ==
    \A x \in Range(ids), y \in Range(ids) :
        (C[x].podIndex = C[y].podIndex)
            <=> (C[x].appName = C[y].appName /\ C[x].podName = C[y].podName)

Contiguous(K) == \E n \in 0..MaxItems : K = 1..n

\* C21 (as claimed): after index renewal two containers of a set have the
\* same podIndex if and only if they have the same (appName, podName), and
\* the podIndex values of the set form a contiguous range.
C21_PodIndex ==
    Loaded =>
        \A rs \in {all_resources, ref_resources} :
            SamePodIndexIffSamePod(rs.containers)
            /\ Contiguous(PodIndices(rs.containers))

\* The part of C21 that the renewal keeps: the podIndex values are 1..n, and
\* containers with the same (appName, podName) have the same podIndex.
C21_ContiguousOnly ==
    Loaded =>
        \A rs \in {all_resources, ref_resources} :
            /\ Contiguous(PodIndices(rs.containers))
            /\ \A x \in Range(rs.containers), y \in Range(rs.containers) :
                  (C[x].appName = C[y].appName /\ C[x].podName = C[y].podName)
                      => C[x].podIndex = C[y].podIndex

(* ------------------------------- C22 ----------------------------------- *)
\* The reference PVC a current PVC is matched with by key: the first one of
\* the reference list with that key (0: none).
PVCMatchOf(id) ==
    LET ks == ref_resources.pvcs
        Hit == {j \in 1..Len(ks) : P[ks[j]].key = P[id].key}
    IN  IF Hit = {} THEN 0 ELSE ks[CHOOSE j \in Hit : \A k \in Hit : j <= k]

\* C22: compare() matches by key alone. A container of the current snapshot
\* is classified as new (New Container or New Pod) exactly when no reference
\* container has its key; otherwise each of its ref_ fields holds the live
\* value of the reference container with that key (the first one in list
\* order), whatever the pod names of the two are. The same for PVCs with New
\* and ref_requests.
C22_KeyMatching ==
    [][CompareStep =>
        /\ \A id \in Range(all_resources.containers) :
              /\ is_new(C'[id]) <=> (C[id].key \notin ContainerKeys(ref_resources))
              /\ MatchOf(id) # 0 =>
                    \A i \in 1..Len(ComparedFields) :
                        C'[id][RefField[ComparedFields[i]]]
                            = C[MatchOf(id)][ComparedFields[i]]
        /\ \A id \in Range(all_resources.pvcs) :
              /\ pvc_is_new(P'[id]) <=> (P[id].key \notin PVCKeys(ref_resources))
              /\ PVCMatchOf(id) # 0 =>
                    P'[id].ref_requests = P[PVCMatchOf(id)].requests]_vars

\* A diff result in which a current container was matched with a reference
\* container of a pod with another name and took its values, and a current
\* PVC was matched too.
C22_Witness ==
    /\ Compared
    /\ \E id \in Range(all_resources.containers), r \in Range(ref_resources.containers) :
          /\ C[id].change = "Modified"
          /\ C[r].key = C[id].key
          /\ C[r].podName # C[id].podName
          /\ C[id].ref_memoryRequests = C[r].memoryRequests
          /\ C[id].ref_memoryRequests # C[id].memoryRequests
    /\ \E p \in Range(all_resources.pvcs) : P[p].change \in {"Unchanged", "Modified"}

(* ------------------------------- C23 ----------------------------------- *)
\* C23: once compare() has returned, the container list and the PVC list of
\* the diff result are in non-decreasing order of the key strings, the
\* deleted entries that compare() appended at the end included.
C23_DiffSorted ==
    Compared =>
        /\ \A k \in 1..(Len(all_resources.containers) - 1) :
              StrLE(C[all_resources.containers[k]].key,
                    C[all_resources.containers[k + 1]].key)
        /\ \A k \in 1..(Len(all_resources.pvcs) - 1) :
              StrLE(P[all_resources.pvcs[k]].key, P[all_resources.pvcs[k + 1]].key)

\* A diff result in which a deleted container stands in front of a live one
\* and a deleted PVC in front of a live one.
C23_Witness ==
    /\ Compared
    /\ \E k \in 1..(Len(all_resources.containers) - 1) :
          /\ is_deleted(C[all_resources.containers[k]])
          /\ ~is_deleted(C[all_resources.containers[k + 1]])
    /\ \E k \in 1..(Len(all_resources.pvcs) - 1) :
          /\ pvc_is_deleted(P[all_resources.pvcs[k]])
          /\ ~pvc_is_deleted(P[all_resources.pvcs[k + 1]])

(* ------------------------------- C24 ----------------------------------- *)
\* The reference entries compare() has put into the current lists.
SynthesizedContainers ==
    {r \in Range(ref_resources.containers) : r \in Range(all_resources'.containers)}

SynthesizedPVCs ==
    {r \in Range(ref_resources.pvcs) : r \in Range(all_resources'.pvcs)}

KeysKept(r) ==
    /\ C'[r].appKey = C[r].appKey
    /\ C'[r].podKey = C[r].podKey
    /\ C'[r].key = C[r].key

\* C24 (as claimed): every deleted entry that compare() synthesizes has
\* podIndex 0 and index 0, containers and PVCs alike (a PVC has no podIndex),
\* and its appKey, podKey and key are those it had in the reference snapshot.
C24_DeletedIndices ==
    [][CompareStep =>
        /\ \A r \in SynthesizedContainers :
              /\ is_deleted(C'[r])
              /\ C'[r].podIndex = 0 /\ C'[r].index = 0
              /\ KeysKept(r)
        /\ \A r \in SynthesizedPVCs :
              /\ pvc_is_deleted(P'[r])
              /\ P'[r].index = 0
              /\ P'[r].key = P[r].key]_vars

\* What compare() does: podIndex of a deleted container is 0 and its index
\* is the one of the reference snapshot, index of a deleted PVC is 0, and the
\* keys are kept.
C24_DeletedAsCoded ==
    [][CompareStep =>
        /\ \A r \in SynthesizedContainers :
              /\ is_deleted(C'[r])
              /\ C'[r].podIndex = 0 /\ C'[r].index = C[r].index /\ C[r].index >= 1
              /\ KeysKept(r)
        /\ \A r \in SynthesizedPVCs :
              /\ pvc_is_deleted(P'[r])
              /\ P'[r].index = 0
              /\ P'[r].key = P[r].key]_vars

(* ------------------------------- C25 ----------------------------------- *)
\* The containers of a pod description, init containers first, with their type.
Described(pod_desc) ==
    [j \in 1..Len(pod_desc.initContainers) |->
        [type |-> S.init, name |-> pod_desc.initContainers[j].name]]
    \o [j \in 1..Len(pod_desc.containers) |->
        [type |-> S.reg, name |-> pod_desc.containers[j].name]]

\* The application a pod description belongs to.
AppOf(pod_desc) ==
    LET owner == pod_desc.ownerReferences[1]
    IN  IF owner.kind = S.ReplicaSet THEN StripLastSegment(owner.name) ELSE owner.name

\* The records a role's documents ask for: one per container of each pod, one
\* (slot 0) for a pod without containers.
Slots(docs) ==
    {<<d, i, j>> \in (1..Len(docs)) \X (1..MaxItems) \X (0..MaxItems) :
        /\ i <= Len(docs[d].items)
        /\ docs[d].items[i].kind = "Pod"
        /\ LET n == Len(Described(docs[d].items[i]))
           IN  IF n = 0 THEN j = 0 ELSE j \in 1..n}

SlotRecord(docs, slot) ==
    LET pod_desc == docs[slot[1]].items[slot[2]]
    IN  [appName |-> AppOf(pod_desc),
         workloadType |-> pod_desc.ownerReferences[1].kind,
         podName |-> pod_desc.name,
         type |-> IF slot[3] = 0 THEN <<>> ELSE Described(pod_desc)[slot[3]].type,
         name |-> IF slot[3] = 0 THEN <<>> ELSE Described(pod_desc)[slot[3]].name]

PodRecord(c) ==
    [appName |-> c.appName, workloadType |-> c.workloadType, podName |-> c.podName,
     type |-> c.type, name |-> c.name]

\* The records of the list are, with their multiplicity, the ones the
\* documents ask for.
Represents(ids, docs) ==
    /\ Len(ids) = Cardinality(Slots(docs))
    /\ \A slot \in Slots(docs) :
          Cardinality({k \in 1..Len(ids) : PodRecord(C[ids[k]]) = SlotRecord(docs, slot)})
              = Cardinality({t \in Slots(docs) :
                                SlotRecord(docs, t) = SlotRecord(docs, slot)})

\* C25: after the loading of pods, a pod with n >= 1 containers is
\* represented by exactly n container records, which carry the pod's
\* appName, workloadType and podName and the container's type and name, and
\* a pod without containers by exactly one record with the pod fields set
\* and an empty container name.
C25_Placeholder ==
    Loaded =>
        /\ Represents(all_resources.containers, dump.input)
        /\ Represents(ref_resources.containers, dump.reference)

\* A loaded set holding the single record of a pod without containers and
\* the two records of a pod with an init and a regular container.
C25_Witness ==
    /\ Loaded
    /\ Len(all_resources.containers) = 3
    /\ \E x \in Range(all_resources.containers) :
          C[x].name = <<>> /\ C[x].podName # <<>> /\ C[x].appName # <<>>
    /\ \E x \in Range(all_resources.containers), y \in Range(all_resources.containers) :
          /\ C[x].type = S.init /\ C[y].type = S.reg
          /\ C[x].podName = C[y].podName /\ C[x].appName = C[y].appName

(* ------------------------------- C26 ----------------------------------- *)
\* The suffixes the claim lists, and no suffix.
ClaimedSuffixes ==
    {"none", "k", "M", "G", "T", "P", "E", "ki", "Mi", "Gi", "Ti", "Pi", "Ei"}

\* res_mem_str_to_bytes has been applied to the quantity string.
Parsed == conv.at = "bytes"

\* C26 (as claimed): res_mem_str_to_bytes returns a value exactly for an
\* integer numeral followed by one of k, M, G, T, P, E, ki, Mi, Gi, Ti, Pi,
\* Ei or by nothing, and raises for every other string.
C26_ParseErrors ==
    Parsed =>
        (conv.bytes[1].ok <=> (conv.mantissa # Absent /\ conv.suffix \in ClaimedSuffixes))

\* C26 (amended): the suffix m is accepted too. The function returns a
\* value exactly for an integer numeral followed by one of the twelve
\* suffixes, by m or by nothing, and raises for every other string; with m
\* the value is the thousandth part of the numeral, rounded to the nearest
\* integer, half to even.
C26_ParseErrorsWithMilli ==
    Parsed =>
        /\ conv.bytes[1].ok
              <=> (conv.mantissa # Absent /\ conv.suffix \in ClaimedSuffixes \cup {"m"})
        /\ (conv.mantissa # Absent /\ conv.suffix = "m") =>
              \E v \in {conv.bytes[1].val}, n \in {conv.mantissa[1]} :
                  /\ v.neg = (n.neg /\ v.mag # <<0>>)
                  /\ \E d \in {DivMod(n.mag, 1000)} :
                        v.mag = IF d.r > 500 \/ (d.r = 500 /\ Odd(d.q))
                                THEN Add(d.q, 1) ELSE d.q

\* A string with an integer numeral in front of an unknown suffix was
\* rejected.
C26_Witness ==
    /\ Parsed
    /\ conv.quantity = Q.xi1
    /\ ~conv.bytes[1].ok

(* ------------------------------- C27 ----------------------------------- *)
\* The keys of the non-deleted containers of the set that mount a claim of
\* the given name.
MountingKeys(rs, name) ==
    {C[id].key : id \in {x \in LiveContainers(rs) : name \in C[x].PVCList}}

\* The PVC is the first one of its name in the list of the set.
FirstOfName(rs, p) ==
    \E k \in 1..Len(rs.pvcs) :
        /\ rs.pvcs[k] = p
        /\ \A j \in 1..(k - 1) : P[rs.pvcs[j]].name # P[p].name

\* C27 (as claimed): after every completed load(), every non-deleted PVC has
\* containerList equal to the set of the keys of the non-deleted containers
\* whose PVCList holds the PVC's name, and containerQuantity equal to the
\* size of containerList, also when pods and PVCs come from different
\* sources.
C27_ContainerLists ==
    Loaded =>
        \A rs \in {all_resources, ref_resources} :
            \A p \in Range(rs.pvcs) :
                ~pvc_is_deleted(P[p]) =>
                    /\ P[p].containerList = MountingKeys(rs, P[p].name)
                    /\ P[p].containerQuantity = Cardinality(P[p].containerList)

\* What the linking does: the first PVC of a name has the keys of the
\* containers that mount the name, a further PVC of the same name has none.
C27_FirstOfNameOnly ==
    Loaded =>
        \A rs \in {all_resources, ref_resources} :
            \A p \in Range(rs.pvcs) :
                /\ P[p].containerList =
                      IF FirstOfName(rs, p) THEN MountingKeys(rs, P[p].name) ELSE {}
                /\ P[p].containerQuantity = Cardinality(P[p].containerList)

\* A pod and the PVC it mounts were loaded from two sources, and the PVC
\* lists the pod's container.
C27_TwoSources ==
    /\ Loaded
    /\ Len(dump.input) = 2
    /\ Len(dump.input[1].items) = 1 /\ dump.input[1].items[1].kind = "Pod"
    /\ Len(dump.input[2].items) = 1
    /\ dump.input[2].items[1].kind = "PersistentVolumeClaim"
    /\ \E p \in Range(all_resources.pvcs) : P[p].containerQuantity = 1

(* ------------------------------- C28 ----------------------------------- *)
\* (appName, podName, type, name) is unique per container of the list.
UniqueContainers(ids) ==
    \A j \in 1..Len(ids), k \in 1..Len(ids) :
        PodRecord(C[ids[j]]) = PodRecord(C[ids[k]]) => j = k

\* C28: after the index renewal of a snapshot in which (appName, podName,
\* type, name) is unique per container, two containers have the same podKey
\* exactly when they have the same (appName, podName), no two containers
\* have the same key, and get_container_by_key finds each container under
\* its own key.
C28_KeysIdentify ==
    (Loaded /\ UniqueContainers(all_resources.containers)) =>
        \A ids \in {all_resources.containers} :
            /\ \A x \in Range(ids), y \in Range(ids) :
                  /\ (C[x].podKey = C[y].podKey)
                        <=> (C[x].appName = C[y].appName /\ C[x].podName = C[y].podName)
                  /\ C[x].key = C[y].key => x = y
            /\ \A x \in Range(ids) : get_container_by_key(C, ids, C[x].key) = x

\* A loaded snapshot with unique containers: two containers of one pod and
\* a container of the same name in another pod of the same application.
C28_Witness ==
    /\ Loaded
    /\ UniqueContainers(all_resources.containers)
    /\ \E x \in Range(all_resources.containers), y \in Range(all_resources.containers),
          z \in Range(all_resources.containers) :
          /\ x # y /\ C[x].podKey = C[y].podKey
          /\ C[z].appName = C[x].appName /\ C[z].podName # C[x].podName
          /\ C[z].name = C[x].name /\ C[z].type = C[x].type
          /\ C[z].podKey # C[x].podKey

(* ------------------------------- C29 ----------------------------------- *)
\* The containers of one podKey stand next to each other in the list.
PodsAdjacent(ids) ==
    \A i \in 1..Len(ids), k \in 1..Len(ids) :
        (i < k /\ C[ids[i]].podKey = C[ids[k]].podKey) =>
            \A j \in i..k : C[ids[j]].podKey = C[ids[i]].podKey

\* C29: in the container list that print() is called on (as loaded, or as
\* compare() sorted it with the deleted entries, and as the filter left it)
\* the containers of one podKey are neighbours, and the tree output holds
\* exactly one pod header line for each podKey of the list.
C29_PodsAdjacent ==
    pc \in {"print", "done"} =>
        /\ PodsAdjacent(resources.containers)
        /\ output = Val("tree") =>
              \A rows \in {Printed} :
                  Cardinality({j \in 1..Len(rows) : rows[j].kind = "pod"})
                      = Cardinality({C[id].podKey : id \in Range(resources.containers)})

\* A tree was printed for a diff result of two pods in which a deleted
\* container stands next to the live container of its pod.
C29_Witness ==
    /\ output = Val("tree")
    /\ Compared
    /\ Cardinality({C[id].podKey : id \in Range(resources.containers)}) = 2
    /\ \E k \in 1..(Len(resources.containers) - 1) :
          /\ C[resources.containers[k]].podKey = C[resources.containers[k + 1]].podKey
          /\ is_deleted(C[resources.containers[k]])
          /\ ~is_deleted(C[resources.containers[k + 1]])

(* ------------------------------- C30 ----------------------------------- *)
\* The items of all the documents parsed into one set, without renewal.
RECURSIVE ParseAll(_, _, _)
ParseAll(st, docs, k) ==
    IF k > Len(docs) THEN st
    ELSE ParseAll(ParseItems(read_res_desc(st, docs[k]), docs[k]), docs, k + 1)

FromEmpty(st) == [st EXCEPT !.C = <<>>, !.P = <<>>, !.containers = <<>>, !.pvcs = <<>>]

\* C30: a snapshot loaded from several sources one after another, with the
\* renewal of indices and relations after each source, ends with the same
\* lists and the same field values (indices, keys, PVCQuantity, PVCRequests,
\* PVCList_not_found, containerList among them) as parsing all the sources
\* and renewing once; and renewing a renewed set again changes nothing.
C30_LoadOnce ==
    Loaded =>
        \A st \in {Heap(all_resources)} :
            /\ st = Renew(ParseAll(FromEmpty(st), dump.input, 1))
            /\ st = Renew(st)

\* A snapshot loaded from two sources: the second source brought the PVC
\* that a container of the first one mounts, and a container that sorts in
\* front of the first source's.
C30_Witness ==
    /\ Loaded
    /\ Len(dump.input) = 2
    /\ \A i \in 1..Len(dump.input[1].items) : dump.input[1].items[i].kind = "Pod"
    /\ \E id \in Range(all_resources.containers) :
          C[id].PVCQuantity = 1 /\ C[id].PVCRequests > 0
    /\ \E j \in 1..Len(all_resources.containers), k \in 1..Len(all_resources.containers) :
          j < k /\ all_resources.containers[j] > all_resources.containers[k]
====
